---- MODULE Spec2Model ----
(***************************************************************************)
(* Model of the Fathom MCP server: the pagination aggregator               *)
(* (fetchAllMeetings), the analytics and search handlers, and the          *)
(* character-limit handling of the list/transcript/search handlers.        *)
(*                                                                         *)
(* Strings.  A string is modelled by run lengths around a short body:      *)
(*   [pre |-> n, body |-> <<c1,...,ck>>, post |-> m]                        *)
(* stands for n filler characters, then the characters c1..ck, then m      *)
(* filler characters.  The filler character occurs in no query, so a       *)
(* query can only match inside the body.  Lengths, indexOf and slice are   *)
(* exact for strings of this shape.                                        *)
(*                                                                         *)
(* Optional values (undefined / null in the source) are sequences of       *)
(* length 0 (absent) or 1 (present).                                       *)
(***************************************************************************)
EXTENDS Integers, Sequences, FiniteSets, TLC

\* ------------------------------------------------------------------ bounds
\* Number of items the remote holds in total for one invocation.
MaxMeetings == 2
\* Largest number of items in one page of the remote.
MaxPageItems == 2
\* Largest caller-supplied limit explored (the schemas allow 1..50 / 1..100).
MaxLimit == 2
\* Largest number of utterances of a transcript returned by the remote.
MaxEntries == 3
\* entries of the params record handed to apiGet
MaxParams == 2
\* pages the remote serves to each of two concurrent invocations
MaxConcurrentPages == 2

\* ------------------------------------------------------- program constants
CHARACTER_LIMIT == 25000
maxPages == 10
DefaultLimit == 10
MsPerMinute == 60000

\* ------------------------------------------------------------------ strings
Str(pre, body, post) == [pre |-> pre, body |-> body, post |-> post]

StrLen(s) == s.pre + Len(s.body) + s.post

\* String.prototype.toLowerCase on one character of the model's alphabet.
LowerChar(c) ==
  CASE c = "A" -> "a"
    [] c = "B" -> "b"
    [] c = "C" -> "c"
    [] OTHER -> c

toLowerCase(body) == [i \in 1..Len(body) |-> LowerChar(body[i])]

\* Positions (1-based, inside the body) at which the lower-cased query
\* occurs in the lower-cased body.
MatchPositions(s, lowerQuery) ==
  { i \in 1..(Len(s.body) - Len(lowerQuery) + 1) :
      SubSeq(toLowerCase(s.body), i, i + Len(lowerQuery) - 1) = lowerQuery }

\* text.includes(lowerQuery): the text itself is not lower-cased.
Includes_CaseSensitive(s, lowerQuery) ==
  \E i \in 1..(Len(s.body) - Len(lowerQuery) + 1) :
    SubSeq(s.body, i, i + Len(lowerQuery) - 1) = lowerQuery

\* text.toLowerCase().includes(lowerQuery)
Includes(s, lowerQuery) == MatchPositions(s, lowerQuery) # {}

\* text.toLowerCase().indexOf(lowerQuery): 0-based index of the first match.
IndexOf(s, lowerQuery) ==
  LET P == MatchPositions(s, lowerQuery)
  IN  s.pre + (CHOOSE i \in P : \A j \in P : i <= j) - 1

Max(a, b) == IF a >= b THEN a ELSE b
Min(a, b) == IF a <= b THEN a ELSE b

\* text.slice(start, end) for 0 <= start <= end <= length, as a string of
\* the same run-length shape.
Slice(s, start, end) ==
  LET n      == Len(s.body)
      bFrom  == Max(start, s.pre)
      bTo    == Min(end, s.pre + n)
  IN  [pre  |-> Max(0, Min(end, s.pre) - start),
       body |-> IF bFrom < bTo THEN SubSeq(s.body, bFrom - s.pre + 1, bTo - s.pre)
                ELSE <<>>,
       post |-> Max(0, end - Max(start, s.pre + n))]

\* ------------------------------------------------------------- remote data
\* Transcript utterances the remote can return (TranscriptEntry).  The text
\* of entry 3 alone is longer than CHARACTER_LIMIT, that of entry 2 is
\* longer than half of it.
Entry(e) ==
  CASE e = 1 -> [speaker |-> "Dana", email |-> <<>>, timestamp |-> "00:12:34",
                 text |-> Str(60, <<"a", "b">>, 70)]
    [] e = 2 -> [speaker |-> "Dana", email |-> <<"dana@x.com">>, timestamp |-> "00:13:00",
                 text |-> Str(13000, <<"A", "B", "a", "b">>, 0)]
    [] e = 3 -> [speaker |-> "Eli", email |-> <<>>, timestamp |-> "00:14:10",
                 text |-> Str(30000, <<"c", "c">>, 0)]
    [] OTHER -> [speaker |-> "Eli", email |-> <<>>, timestamp |-> "00:15:00",
                 text |-> Str(0, <<"b", "c">>, 5)]

EntryIds == 1..4

\* Meetings the remote can return (Meeting), by recording id.  Timestamps
\* are the milliseconds `new Date(s).getTime()` yields for the ISO strings;
\* urlLen, createdLen and dateLen are the lengths of url, of created_at
\* and of the localized date `new Date(created_at).toLocaleString()`.
MeetingOf(id) ==
  CASE id = 1 ->
         [recording_id |-> 1,
          title |-> Str(0, <<"A", "b">>, 4), meeting_title |-> <<>>,
          urlLen |-> 30, dateLen |-> 20, createdLen |-> 20,
          scheduled_start_time |-> 0, scheduled_end_time |-> 3600000,
          recording_start_time |-> 120000, recording_end_time |-> 5550000,
          calendar_invitees_domains_type |-> "only_internal",
          transcript |-> << <<1, 4, 2, 1, 2>> >>,
          default_summary |-> << [markdown_formatted |-> << Str(49, <<"a", "b", "c">>, 50) >>] >>,
          calendar_invitees |-> << [name |-> "Bob", email |-> "bob@y.org", email_domain |-> "y.org",
                                     is_external |-> TRUE],
                                    [name |-> "Ann", email |-> "Ann@x.com", email_domain |-> "X.com",
                                     is_external |-> FALSE] >>,
          recorded_by |-> [name |-> "Ann", email |-> "ann@x.com", email_domain |-> "x.com", team |-> <<"Sales">>]]
    [] id = 2 ->
         [recording_id |-> 2,
          title |-> Str(0, <<"c", "c">>, 0), meeting_title |-> << Str(3, <<"b", "C">>, 0) >>,
          urlLen |-> 30, dateLen |-> 20, createdLen |-> 20,
          scheduled_start_time |-> 0, scheduled_end_time |-> 5430000,
          recording_start_time |-> 60000, recording_end_time |-> 5489999,
          calendar_invitees_domains_type |-> "one_or_more_external",
          transcript |-> <<>>,
          default_summary |-> <<>>,
          calendar_invitees |-> << [name |-> "Annie", email |-> "ann@x.com", email_domain |-> "x.com",
                                     is_external |-> FALSE] >>,
          recorded_by |-> [name |-> "Bob", email |-> "Bob@y.org", email_domain |-> "y.org", team |-> <<>>]]
    [] OTHER ->
         [recording_id |-> 3,
          title |-> Str(30000, <<"a", "b">>, 0), meeting_title |-> <<>>,
          urlLen |-> 30, dateLen |-> 20, createdLen |-> 20,
          scheduled_start_time |-> 0, scheduled_end_time |-> 1800000,
          recording_start_time |-> 0, recording_end_time |-> 89999,
          calendar_invitees_domains_type |-> "one_or_more_external",
          transcript |-> << <<3>> >>,
          default_summary |-> << [markdown_formatted |-> <<>>] >>,
          calendar_invitees |-> <<>>,
          recorded_by |-> [name |-> "Ann", email |-> "ann@x.com", email_domain |-> "x.com", team |-> <<"">>]]

MeetingIds == {1, 2, 3}

\* Sequences over S of length at most n.
SeqsUpTo(S, n) == UNION { [1..k -> S] : k \in 0..n }

\* ------------------------------------------------------- fetchAllMeetings
\* The loop condition of the do/while: `cursor && pageCount < maxPages`.
ContinueFetching_CeilingOffByOne(cursor, pageCount) ==
  cursor # <<>> /\ pageCount <= maxPages

ContinueFetching(cursor, pageCount) ==
  cursor # <<>> /\ pageCount < maxPages

\* allMeetings.push(...response.items)
PushItems_Dedup(allMeetings, items) ==
  allMeetings \o SelectSeq(items, LAMBDA m : \A i \in 1..Len(allMeetings) : allMeetings[i] # m)

PushItems(allMeetings, items) == allMeetings \o items

\* --------------------------------------------------------------- durations
\* Math.round(num / den) for den > 0: the nearest integer, an exact half
\* going to the larger one.
MathRound(num, den) == (2 * num + den) \div (2 * den)

\* getDurationMinutes(m.recording_start_time, m.recording_end_time)
getDurationMinutes_Scheduled(m) ==
  MathRound(m.scheduled_end_time - m.scheduled_start_time, MsPerMinute)

getDurationMinutes(m) ==
  MathRound(m.recording_end_time - m.recording_start_time, MsPerMinute)

\* Math.round(a / n) for a count n >= 0: JavaScript raises nothing on a
\* zero divisor, the quotient is NaN (or an infinity).
JsRoundedQuotient(a, n) == IF n = 0 THEN "NaN" ELSE MathRound(a, n)

RECURSIVE SumSeq(_)
SumSeq(q) == IF q = <<>> THEN 0 ELSE Head(q) + SumSeq(Tail(q))

SeqMin(q) == CHOOSE x \in {q[i] : i \in 1..Len(q)} : \A j \in 1..Len(q) : x <= q[j]
SeqMax(q) == CHOOSE x \in {q[i] : i \in 1..Len(q)} : \A j \in 1..Len(q) : x >= q[j]

\* ------------------------------------------------------------ meeting_stats
\* `meeting.recorded_by.team || "No Team"`
TeamKey_Unassigned(m) ==
  IF m.recorded_by.team = <<>> \/ m.recorded_by.team = <<"">>
  THEN "Unassigned" ELSE m.recorded_by.team[1]

TeamKey(m) ==
  IF m.recorded_by.team = <<>> \/ m.recorded_by.team = <<"">>
  THEN "No Team" ELSE m.recorded_by.team[1]

\* The loop filling meetingsByTeam: one increment per meeting.
RECURSIVE CountByTeam(_, _)
CountByTeam(meetings, acc) ==
  IF meetings = <<>> THEN acc
  ELSE LET team == TeamKey(MeetingOf(Head(meetings)))
       IN  CountByTeam(Tail(meetings),
             IF team \in DOMAIN acc THEN [acc EXCEPT ![team] = @ + 1]
             ELSE acc @@ (team :> 1))

\* meetings.filter(m => m.calendar_invitees_domains_type === "only_internal").length
InternalCount(meetings) ==
  Cardinality({ i \in 1..Len(meetings) :
      MeetingOf(meetings[i]).calendar_invitees_domains_type = "only_internal" })

\* The guard of the early return: `meetings.length === 0`.
NoMeetings_Never(meetings) == FALSE

NoMeetings(meetings) == Len(meetings) = 0

\* The "No meetings found" result: no isError, no structuredContent.
NoDataResult ==
  [isError |-> FALSE, structured |-> <<>>,
   text |-> [kind |-> "nodata", notice |-> FALSE]]

\* The statistics object of fathom_meeting_stats, for a non-empty collection.
MeetingStatsOutput(meetings) ==
  LET durations    == [i \in 1..Len(meetings) |-> getDurationMinutes(MeetingOf(meetings[i]))]
      totalMinutes == SumSeq(durations)
      internal     == InternalCount(meetings)
  IN  [total_meetings |-> Len(meetings),
       duration_stats |->
         [average_minutes |-> JsRoundedQuotient(totalMinutes, Len(meetings)),
          min_minutes |-> IF durations = <<>> THEN "Infinity" ELSE SeqMin(durations),
          max_minutes |-> IF durations = <<>> THEN "-Infinity" ELSE SeqMax(durations),
          total_minutes |-> totalMinutes],
       meetings_by_team |-> CountByTeam(meetings, <<>>),
       internal_vs_external |->
         [internal |-> internal, external |-> Len(meetings) - internal]]

\* The divisors the handler divides by: meetings.length, for the average
\* (and, in markdown, for the two percentages).
StatsDivisors(meetings) ==
  IF NoMeetings(meetings) THEN {} ELSE {Len(meetings)}

MeetingStatsResult(meetings, format) ==
  IF NoMeetings(meetings) THEN NoDataResult
  ELSE [isError |-> FALSE,
        structured |-> << MeetingStatsOutput(meetings) >>,
        text |-> [kind |-> format, notice |-> FALSE]]

\* --------------------------------------------------------- search_meetings
\* One context snippet: +-50 characters around the first match, with the
\* "..." marks; `mark` is the pair <<left-clipped, right-clipped>>.
Snippet_DotsFromFifty(text, query) ==
  LET index == IndexOf(text, toLowerCase(query))
      start == Max(0, index - 50)
      end   == Min(StrLen(text), index + Len(query) + 50)
  IN  [leftDots |-> index >= 50, rightDots |-> end < StrLen(text),
       body |-> Slice(text, start, end)]

Snippet(text, query) ==
  LET index == IndexOf(text, toLowerCase(query))
      start == Max(0, index - 50)
      end   == Min(StrLen(text), index + Len(query) + 50)
  IN  [leftDots |-> start > 0, rightDots |-> end < StrLen(text),
       body |-> Slice(text, start, end)]

SnippetLen(sn) ==
  (IF sn.leftDots THEN 3 ELSE 0) + StrLen(sn.body) + (IF sn.rightDots THEN 3 ELSE 0)

\* `contextSnippets.length >= 3` after a push in the transcript loop.
SnippetsFull_AtFour(count) == count >= 4

SnippetsFull(count) == count >= 3

\* The loop over meeting.transcript: `acc` is contextSnippets so far.  The
\* `break` after the third push is the test at the head of the next round.
RECURSIVE TranscriptSnippets(_, _, _)
TranscriptSnippets(entries, query, acc) ==
  IF entries = <<>> \/ SnippetsFull(Len(acc)) THEN acc
  ELSE LET entry == Entry(Head(entries))
       IN  TranscriptSnippets(Tail(entries), query,
             IF Includes(entry.text, toLowerCase(query))
             THEN Append(acc, [source |-> "transcript", timestamp |-> entry.timestamp,
                               speaker |-> entry.speaker,
                               snippet |-> Snippet(entry.text, query)])
             ELSE acc)

\* `if (inSummary && contextSnippets.length < 3) { ... push(`[Summary] ...`) }`
AddSummarySnippet_First(contextSnippets, inSummary, summaryText, query) ==
  IF inSummary /\ Len(contextSnippets) < 3
  THEN << [source |-> "summary", timestamp |-> "", speaker |-> "",
           snippet |-> Snippet(summaryText, query)] >> \o contextSnippets
  ELSE contextSnippets

AddSummarySnippet(contextSnippets, inSummary, summaryText, query) ==
  IF inSummary /\ Len(contextSnippets) < 3
  THEN Append(contextSnippets, [source |-> "summary", timestamp |-> "", speaker |-> "",
                                snippet |-> Snippet(summaryText, query)])
  ELSE contextSnippets

\* searchInMeeting(meeting, query): <<>> for null, else <<matches>>.
searchInMeeting(m, query) ==
  LET lowerQuery == toLowerCase(query)
      inTitle == \/ Includes(m.title, lowerQuery)
                 \/ (m.meeting_title # <<>> /\ Includes(m.meeting_title[1], lowerQuery))
      entries == IF m.transcript # <<>> THEN m.transcript[1] ELSE <<>>
      inTranscript == \E i \in 1..Len(entries) : Includes(Entry(entries[i]).text, lowerQuery)
      fromTranscript == TranscriptSnippets(entries, query, <<>>)
      hasSummary == m.default_summary # <<>> /\ m.default_summary[1].markdown_formatted # <<>>
                      /\ StrLen(m.default_summary[1].markdown_formatted[1]) > 0
      summaryText == m.default_summary[1].markdown_formatted[1]
      inSummary == hasSummary /\ Includes(summaryText, lowerQuery)
      contextSnippets == AddSummarySnippet(fromTranscript, inSummary, summaryText, query)
  IN  IF ~inTitle /\ ~inTranscript /\ ~inSummary THEN <<>>
      ELSE << [recording_id |-> m.recording_id,
               in_title |-> inTitle, in_transcript |-> inTranscript,
               in_summary |-> inSummary, context_snippets |-> contextSnippets] >>

\* `results.length >= (params.limit || 10)`
LimitReached_OffByOne(count, limit) == count > limit

LimitReached(count, limit) == count >= limit

\* The search loop of the handler: the results and the number of meetings
\* handed to searchInMeeting.  The `break` after a push that reaches the
\* limit is the test at the head of the next round (limit >= 1).
RECURSIVE SearchLoop(_, _, _, _, _)
SearchLoop(meetings, query, limit, results, examined) ==
  IF examined = Len(meetings) \/ LimitReached(Len(results), limit)
  THEN [results |-> results, examined |-> examined]
  ELSE SearchLoop(meetings, query, limit,
                  results \o searchInMeeting(MeetingOf(meetings[examined + 1]), query),
                  examined + 1)

SearchOutput_ReportScanned(meetings, query, limit) ==
  LET loop == SearchLoop(meetings, query, limit, <<>>, 0)
  IN  [query |-> query,
       total_searched |-> loop.examined,
       matches_found |-> Len(loop.results),
       results |-> loop.results]

SearchOutput(meetings, query, limit) ==
  LET loop == SearchLoop(meetings, query, limit, <<>>, 0)
  IN  [query |-> query,
       total_searched |-> Len(meetings),
       matches_found |-> Len(loop.results),
       results |-> loop.results]

\* ---------------------------------------------------------------- rendering
\* Number of characters of `${n}` for an integer n >= 0.
RECURSIVE NumLen(_)
NumLen(n) == IF n < 10 THEN 1 ELSE 1 + NumLen(n \div 10)

\* Length of lines.join("\n") from the number of lines and of their characters.
JoinLen(lines, chars) == IF lines = 0 THEN 0 ELSE chars + lines - 1

\* Length of the JSON.stringify(v, null, 2) text of an object whose closing
\* brace is indented by 2*depth; fields is a sequence of <<key, length of
\* the value's text>>.  (Strings hold no character that JSON escapes.)
RECURSIVE JsonFieldsLen(_, _)
JsonFieldsLen(depth, fields) ==
  IF fields = <<>> THEN 0
  ELSE 1 + 2 * (depth + 1) + Len(Head(fields)[1]) + 4 + Head(fields)[2]
       + (IF Len(fields) > 1 THEN 1 ELSE 0) + JsonFieldsLen(depth, Tail(fields))

JsonObjLen(depth, fields) ==
  IF fields = <<>> THEN 2 ELSE 1 + JsonFieldsLen(depth, fields) + 1 + 2 * depth + 1

\* The same for an array, from the lengths of its elements' texts.
JsonArrLen(depth, elems) ==
  IF elems = <<>> THEN 2
  ELSE 1 + SumSeq([i \in 1..Len(elems) |-> 1 + 2 * (depth + 1) + elems[i]])
       + (Len(elems) - 1) + 1 + 2 * depth + 1

\* The text of a result: its format, the length of the first rendering, the
\* length of the text returned, whether it carries a truncation notice, the
\* item counts its truncation message states (<<>> or <<from, to>>), the
\* items it was rendered from, and whether it was cut by slice().
TextOf(kind, first, len, notice, stated, rendered, sliced) ==
  [kind |-> kind, first |-> first, len |-> len, notice |-> notice, stated |-> stated,
   rendered |-> rendered, sliced |-> sliced]

\* Math.ceil(n / 2)
CeilHalf_Floor(n) == n \div 2

CeilHalf(n) == (n + 1) \div 2

\* `textContent.length > CHARACTER_LIMIT`
OverLimit(len) == len > CHARACTER_LIMIT

\* ----------------------------------------------------------- get_transcript
\* formatTranscriptMarkdown: <<lines, characters>> added by the loop.
RECURSIVE TranscriptLines(_, _)
TranscriptLines(entries, currentSpeaker) ==
  IF entries = <<>> THEN <<0, 0>>
  ELSE LET entry  == Entry(Head(entries))
           change == entry.speaker # currentSpeaker
           rest   == TranscriptLines(Tail(entries), entry.speaker)
           hdrLines == IF change THEN 3 + (IF entry.email # <<>> THEN 1 ELSE 0) ELSE 0
           hdrChars == IF change
                       THEN 4 + Len(entry.speaker)
                            + (IF entry.email # <<>> THEN 2 + Len(entry.email[1]) ELSE 0)
                       ELSE 0
       IN  << hdrLines + 2 + rest[1],
              hdrChars + 7 + Len(entry.timestamp) + StrLen(entry.text) + rest[2] >>

formatTranscriptMarkdownLen(entries) ==
  LET body == TranscriptLines(entries, "")
  IN  JoinLen(2 + body[1], 20 + body[2])

TranscriptEntryJsonLen(e) ==
  LET entry == Entry(e)
      speaker == << <<"display_name", Len(entry.speaker) + 2>> >>
                 \o (IF entry.email # <<>>
                     THEN << <<"matched_calendar_invitee_email", Len(entry.email[1]) + 2>> >>
                     ELSE <<>>)
  IN  JsonObjLen(2, << <<"speaker", JsonObjLen(3, speaker)>>,
                       <<"text", StrLen(entry.text) + 2>>,
                       <<"timestamp", Len(entry.timestamp) + 2>> >>)

\* JSON.stringify of the transcript output; `extra` are the truncation fields.
TranscriptJsonLen(recording_id, entry_count, entries, extra) ==
  JsonObjLen(0, << <<"recording_id", NumLen(recording_id)>>,
                   <<"entry_count", NumLen(entry_count)>>,
                   <<"transcript",
                     JsonArrLen(1, [i \in 1..Len(entries) |-> TranscriptEntryJsonLen(entries[i])])>> >>
                \o extra)

\* `response.transcript.slice(0, Math.ceil(response.transcript.length / 2))`
TruncateTranscript_LastHalf(transcript) ==
  SubSeq(transcript, Len(transcript) - CeilHalf(Len(transcript)) + 1, Len(transcript))

TruncateTranscript(transcript) == SubSeq(transcript, 1, CeilHalf(Len(transcript)))

\* The fathom_get_transcript handler after the response arrived.
GetTranscriptResult(recording_id, transcript, format) ==
  LET n == Len(transcript)
      output == [recording_id |-> recording_id, entry_count |-> n, transcript |-> transcript]
      firstLen == IF format = "json"
                  THEN TranscriptJsonLen(recording_id, n, transcript, <<>>)
                  ELSE 40 + NumLen(recording_id) + NumLen(n) + formatTranscriptMarkdownLen(transcript)
      truncatedTranscript == TruncateTranscript(transcript)
      k == Len(truncatedTranscript)
      msgLen == 58 + NumLen(n) + NumLen(k)
      text == IF OverLimit(firstLen)
              THEN IF format = "json"
                   THEN TextOf(format, firstLen,
                               TranscriptJsonLen(recording_id, n, truncatedTranscript,
                                 << <<"truncated", 4>>, <<"truncation_message", msgLen + 2>> >>),
                               TRUE, <<n, k>>, truncatedTranscript, FALSE)
                   ELSE TextOf(format, firstLen, msgLen + 4 + formatTranscriptMarkdownLen(truncatedTranscript),
                               TRUE, <<n, k>>, truncatedTranscript, FALSE)
              ELSE TextOf(format, firstLen, firstLen, FALSE, <<>>, transcript, FALSE)
  IN  [isError |-> FALSE, structured |-> <<output>>, text |-> text]

\* ----------------------------------------------- search_meetings (rendering)
\* `[${timestamp}] ${speaker}: ${snippet}` or `[Summary] ${snippet}`
ContextSnippetLen(c) ==
  IF c.source = "summary" THEN 10 + SnippetLen(c.snippet)
  ELSE 5 + Len(c.timestamp) + Len(c.speaker) + SnippetLen(c.snippet)

\* `matchLocations.join(", ")`
MatchLocationsLen(r) ==
  LET n == (IF r.in_title THEN 1 ELSE 0) + (IF r.in_transcript THEN 1 ELSE 0)
           + (IF r.in_summary THEN 1 ELSE 0)
  IN  (IF r.in_title THEN 5 ELSE 0) + (IF r.in_transcript THEN 10 ELSE 0)
      + (IF r.in_summary THEN 7 ELSE 0) + 2 * (n - 1)

\* The markdown lines of one search result: <<lines, characters>>.
SearchResultLines(r) ==
  LET m == MeetingOf(r.recording_id)
      snippets == r.context_snippets
  IN  << 10 + (IF Len(snippets) > 0 THEN 1 + Len(snippets) ELSE 0),
         (3 + StrLen(m.title)) + (18 + NumLen(m.recording_id)) + (10 + m.dateLen)
         + (9 + m.urlLen) + (12 + MatchLocationsLen(r)) + 3
         + (IF Len(snippets) > 0
            THEN 12 + SumSeq([i \in 1..Len(snippets) |-> 2 + ContextSnippetLen(snippets[i])])
            ELSE 0) >>

SearchMarkdownLen(output) ==
  LET rs == output.results
      head == 20 + Len(output.query) + 34 + NumLen(output.total_searched)
              + NumLen(output.matches_found)
  IN  IF rs = <<>> THEN JoinLen(5, head + 65)
      ELSE JoinLen(4 + SumSeq([i \in 1..Len(rs) |-> SearchResultLines(rs[i])[1]]),
                   head + SumSeq([i \in 1..Len(rs) |-> SearchResultLines(rs[i])[2]]))

BoolLen(b) == IF b THEN 4 ELSE 5

SearchResultJsonLen(r) ==
  LET m == MeetingOf(r.recording_id)
      snippets == r.context_snippets
  IN  JsonObjLen(2, <<
        <<"recording_id", NumLen(m.recording_id)>>,
        <<"title", StrLen(m.title) + 2>>,
        <<"created_at", m.createdLen + 2>>,
        <<"recorded_by", Len(m.recorded_by.name) + 2>>,
        <<"url", m.urlLen + 2>>,
        <<"matches", JsonObjLen(3, <<
            <<"in_title", BoolLen(r.in_title)>>,
            <<"in_transcript", BoolLen(r.in_transcript)>>,
            <<"in_summary", BoolLen(r.in_summary)>>,
            <<"context_snippets",
              JsonArrLen(4, [i \in 1..Len(snippets) |-> ContextSnippetLen(snippets[i]) + 2])>> >>)>> >>)

SearchJsonLen(output) ==
  JsonObjLen(0, <<
    <<"query", Len(output.query) + 2>>,
    <<"total_searched", NumLen(output.total_searched)>>,
    <<"matches_found", NumLen(output.matches_found)>>,
    <<"results",
      JsonArrLen(1, [i \in 1..Len(output.results) |-> SearchResultJsonLen(output.results[i])])>> >>)

\* The fathom_search_meetings handler once fetchAllMeetings returned.
SearchMeetingsResult(meetings, query, limit, format) ==
  LET output == SearchOutput(meetings, query, limit)
      firstLen == IF format = "json" THEN SearchJsonLen(output) ELSE SearchMarkdownLen(output)
      ids == [i \in 1..Len(output.results) |-> output.results[i].recording_id]
      text == IF OverLimit(firstLen)
              THEN TextOf(format, firstLen, (CHARACTER_LIMIT - 100) + 52, TRUE, <<>>, ids, TRUE)
              ELSE TextOf(format, firstLen, firstLen, FALSE, <<>>, ids, FALSE)
  IN  [isError |-> FALSE, structured |-> <<output>>, text |-> text]

\* ------------------------------------------------------------ list_meetings
\* `Math.round(durationMs / 60000)` rendered by `${n}` (n may be negative).
IntLen(n) == IF n < 0 THEN 1 + NumLen(0 - n) ELSE NumLen(n)

\* formatDuration(recording_start_time, recording_end_time)
formatDurationLen(m) ==
  LET minutes == getDurationMinutes(m)
  IN  IF minutes < 60 THEN IntLen(minutes) + 4
      ELSE NumLen(minutes \div 60) + 2 + NumLen(minutes % 60) + 1

HasTeam(m) == m.recorded_by.team # <<>> /\ m.recorded_by.team # <<"">>

\* formatMeetingMarkdown(meeting, false): the length of its text.
formatMeetingMarkdownLen(m) ==
  LET calendar == m.meeting_title # <<>> /\ StrLen(m.meeting_title[1]) > 0
                    /\ m.meeting_title[1] # m.title
      inv == m.calendar_invitees
      lines == 9 + (IF calendar THEN 1 ELSE 0) + (IF HasTeam(m) THEN 1 ELSE 0)
               + (IF Len(inv) > 0 THEN 2 + Len(inv) ELSE 0)
      chars == (3 + StrLen(m.title))
               + (IF calendar THEN 18 + StrLen(m.meeting_title[1]) ELSE 0)
               + (20 + NumLen(m.recording_id)) + (12 + m.dateLen)
               + (16 + formatDurationLen(m))
               + (22 + Len(m.recorded_by.name) + Len(m.recorded_by.email))
               + (IF HasTeam(m) THEN 12 + Len(m.recorded_by.team[1]) ELSE 0)
               + (12 + 8) + (11 + m.urlLen)
               + (IF Len(inv) > 0
                  THEN 16 + SumSeq([i \in 1..Len(inv) |->
                              5 + Len(inv[i].name) + Len(inv[i].email)
                              + (IF inv[i].is_external THEN 11 ELSE 0)])
                  ELSE 0)
  IN  JoinLen(lines, chars)

\* The markdown text of fathom_list_meetings before the limit check.
ListMeetingsMarkdownLen(items, next_cursor) ==
  LET more == next_cursor # <<>>
      lines == 4 + 3 * Len(items) + (IF more THEN 1 ELSE 0)
      chars == 17 + (15 + NumLen(Len(items)) + (IF more THEN 17 ELSE 0))
               + SumSeq([i \in 1..Len(items) |-> formatMeetingMarkdownLen(MeetingOf(items[i])) + 3])
               + (IF more THEN 36 + NumLen(next_cursor[1]) ELSE 0)
  IN  JoinLen(lines, chars)

ListMeetingJsonLen(id) ==
  LET m == MeetingOf(id)
      rb == m.recorded_by
  IN  JsonObjLen(2, <<
        <<"recording_id", NumLen(m.recording_id)>>,
        <<"title", StrLen(m.title) + 2>>,
        <<"created_at", m.createdLen + 2>>,
        <<"duration_minutes", IntLen(getDurationMinutes(m))>>,
        <<"recorded_by", JsonObjLen(3,
            << <<"name", Len(rb.name) + 2>>, <<"email", Len(rb.email) + 2>>,
               <<"email_domain", Len(rb.email_domain) + 2>> >>
            \o (IF rb.team # <<>> THEN << <<"team", Len(rb.team[1]) + 2>> >> ELSE <<>>))>>,
        <<"participants_count", NumLen(Len(m.calendar_invitees))>>,
        <<"type", Len(m.calendar_invitees_domains_type) + 2>>,
        <<"url", m.urlLen + 2>> >>)

\* JSON.stringify of the list output over `shown`; `extra` are the
\* truncation fields.  total_returned stays the number of items received.
ListMeetingsJsonLen(total_returned, next_cursor, shown, extra) ==
  JsonObjLen(0, <<
    <<"total_returned", NumLen(total_returned)>>,
    <<"has_more", BoolLen(next_cursor # <<>>)>>,
    <<"next_cursor", IF next_cursor # <<>> THEN NumLen(next_cursor[1]) + 2 ELSE 4>>,
    <<"meetings", JsonArrLen(1, [i \in 1..Len(shown) |-> ListMeetingJsonLen(shown[i])])>> >>
    \o extra)

\* A text of fathom_list_meetings together with the cursor it names for
\* loading more results (<<>> when it names none) and the number of
\* meetings it shows, at least in part and as a whole.
WithHint(text, hint, within) == text @@ [hint |-> hint, within |-> within]

\* The meetings within the first `keep` characters of the markdown text:
\* the block of meeting i starts after the four heading lines and the
\* blocks, "---" and "" lines of the meetings before it.
MeetingsWithin(items, next_cursor, keep) ==
  LET found == 15 + NumLen(Len(items)) + (IF next_cursor # <<>> THEN 17 ELSE 0)
      block(i) == formatMeetingMarkdownLen(MeetingOf(items[i]))
      start(i) == found + 21 + SumSeq([j \in 1..(i - 1) |-> block(j) + 6])
  IN  [partly |-> Cardinality({ i \in 1..Len(items) : start(i) < keep }),
       wholly |-> Cardinality({ i \in 1..Len(items) : start(i) + block(i) <= keep })]

\* `textContent.slice(0, CHARACTER_LIMIT - 200)` of the markdown text: its
\* last line is "*Use cursor `" + next_cursor + "` to load more results*", so
\* the cursor ends 23 characters before the end of the text and is kept
\* when those characters lie within the slice.
CursorKept(firstLen, kept) == firstLen - 23 <= kept

\* The fathom_list_meetings handler after the response arrived (no include_*
\* flag set by the caller).
ListMeetingsResult(items, next_cursor, format) ==
  LET n == Len(items)
      output == [total_returned |-> n, has_more |-> next_cursor # <<>>,
                 next_cursor |-> next_cursor, meetings |-> items]
      firstLen == IF format = "json" THEN ListMeetingsJsonLen(n, next_cursor, items, <<>>)
                  ELSE ListMeetingsMarkdownLen(items, next_cursor)
      half == SubSeq(items, 1, CeilHalf(n))
      text == IF OverLimit(firstLen)
              THEN IF format = "json"
                   THEN TextOf(format, firstLen,
                               ListMeetingsJsonLen(n, next_cursor, half,
                                 << <<"truncated", 4>>, <<"truncation_message", 83 + 2>> >>),
                               TRUE, <<>>, half, FALSE)
                   ELSE TextOf(format, firstLen,
                               58 + NumLen(Len(half)) + NumLen(n)
                               + Min(firstLen, CHARACTER_LIMIT - 200),
                               TRUE, <<n, Len(half)>>, items, TRUE)
              ELSE TextOf(format, firstLen, firstLen, FALSE, <<>>, items, FALSE)
      hint == IF text.sliced /\ ~CursorKept(firstLen, Min(firstLen, CHARACTER_LIMIT - 200))
              THEN <<>>
              ELSE next_cursor
      within == IF text.sliced
                THEN MeetingsWithin(items, next_cursor, CHARACTER_LIMIT - 200)
                ELSE [partly |-> Len(text.rendered), wholly |-> Len(text.rendered)]
  IN  [isError |-> FALSE, structured |-> <<output>>, text |-> WithHint(text, hint, within)]

\* -------------------------------------------------------- participant_stats
\* String.prototype.toLowerCase on the e-mail strings of the remote data.
toLowerCaseStr(str) ==
  CASE str = "Ann@x.com" -> "ann@x.com"
    [] str = "Bob@y.org" -> "bob@y.org"
    [] str = "X.com" -> "x.com"
    [] OTHER -> str

\* Map.get / Map.set on a Map kept in insertion order: count one more
\* appearance of `key`, keeping the first-seen name and e-mail.
CountKey(table, key, name, email) ==
  IF \E i \in 1..Len(table) : table[i].key = key
  THEN [i \in 1..Len(table) |->
          IF table[i].key = key THEN [table[i] EXCEPT !.count = @ + 1] ELSE table[i]]
  ELSE Append(table, [key |-> key, name |-> name, email |-> email, count |-> 1])

\* The inner loop over meeting.calendar_invitees, on participantCounts.
RECURSIVE CountInvitees(_, _)
CountInvitees(invitees, table) ==
  IF invitees = <<>> THEN table
  ELSE CountInvitees(Tail(invitees),
         CountKey(table, toLowerCaseStr(Head(invitees).email),
                  Head(invitees).name, Head(invitees).email))

\* `invitee.email_domain.toLowerCase()`
DomainKey_AsGiven(invitee) == invitee.email_domain

DomainKey(invitee) == toLowerCaseStr(invitee.email_domain)

\* The same loop, on domainCounts.
RECURSIVE CountDomains(_, _)
CountDomains(invitees, table) ==
  IF invitees = <<>> THEN table
  ELSE CountDomains(Tail(invitees),
         CountKey(table, DomainKey(Head(invitees)), "", ""))

\* The outer loop over meetings: the three Maps.
RECURSIVE CountAll(_, _)
CountAll(meetings, maps) ==
  IF meetings = <<>> THEN maps
  ELSE LET m == MeetingOf(Head(meetings))
       IN  CountAll(Tail(meetings),
             [participantCounts |-> CountInvitees(m.calendar_invitees, maps.participantCounts),
              domainCounts |-> CountDomains(m.calendar_invitees, maps.domainCounts),
              recorderCounts |-> CountKey(maps.recorderCounts,
                                          toLowerCaseStr(m.recorded_by.email),
                                          m.recorded_by.name, m.recorded_by.email)])

\* Array.prototype.sort((a, b) => b.count - a.count): stable, descending.
SortByCountDesc_InsertionOrder(table) == table

RECURSIVE SortByCountDesc(_)
SortByCountDesc(table) ==
  IF table = <<>> THEN <<>>
  ELSE LET last == table[Len(table)]
           init == SortByCountDesc(SubSeq(table, 1, Len(table) - 1))
           k    == Cardinality({ i \in 1..Len(init) : init[i].count >= last.count })
       IN  SubSeq(init, 1, k) \o <<last>> \o SubSeq(init, k + 1, Len(init))

\* `.slice(0, limit)`
SliceTo(q, limit) == SubSeq(q, 1, Min(Len(q), limit))

\* The statistics object of fathom_participant_stats, non-empty collection.
ParticipantStatsOutput(meetings, limit) ==
  LET maps == CountAll(meetings, [participantCounts |-> <<>>, domainCounts |-> <<>>,
                                  recorderCounts |-> <<>>])
      top(table) == SliceTo(SortByCountDesc(table), limit)
      tp == top(maps.participantCounts)
      db == top(maps.domainCounts)
      tr == top(maps.recorderCounts)
  IN  [top_participants |->
         [i \in 1..Len(tp) |-> [name |-> tp[i].name, email |-> tp[i].email,
                                meeting_count |-> tp[i].count]],
       domain_breakdown |->
         [i \in 1..Len(db) |-> [domain |-> db[i].key, count |-> db[i].count]],
       top_recorders |->
         [i \in 1..Len(tr) |-> [name |-> tr[i].name, email |-> tr[i].email,
                                recording_count |-> tr[i].count]]]

ParticipantStatsResult(meetings, limit, format) ==
  IF NoMeetings(meetings) THEN NoDataResult
  ELSE [isError |-> FALSE,
        structured |-> << ParticipantStatsOutput(meetings, limit) >>,
        text |-> [kind |-> format, notice |-> FALSE]]

\* --------------------------------------------------------------- get_summary
\* Summaries the remote can return (Summary), by id: one with template name
\* and body, one with both null.
SummaryOf(s) ==
  CASE s = 1 -> [template_name |-> <<"General">>,
                 markdown_formatted |-> << Str(80, <<"a", "b", "c">>, 80) >>]
    [] OTHER -> [template_name |-> <<>>, markdown_formatted |-> <<>>]

SummaryIds == {1, 2}

\* The handler of fathom_get_summary after the response: the markdown text
\* is described by the lines it holds.
GetSummaryResult_MarkdownOnlyText(recording_id, summary, format) ==
  [isError |-> FALSE,
   structured |-> IF format = "json"
                  THEN << [recording_id |-> recording_id, summary |-> summary] >>
                  ELSE <<>>,
   text |-> [kind |-> format, notice |-> FALSE]]

GetSummaryResult(recording_id, summary, format) ==
  LET output == [recording_id |-> recording_id, summary |-> summary]
      text ==
        IF format = "json" THEN [kind |-> "json", notice |-> FALSE]
        ELSE [kind |-> "markdown", notice |-> FALSE,
              template |-> summary.template_name # <<>>,
              body |-> summary.markdown_formatted # <<>>]
  IN  [isError |-> FALSE, structured |-> <<output>>, text |-> text]

\* ------------------------------------------------------------------- teams
\* Teams and team members the remote can return (Team, TeamMember), by id.
TeamOf(t) ==
  CASE t = 1 -> [name |-> "Sales", created_at |-> "2024-01-15T09:00:00Z"]
    [] OTHER -> [name |-> "Support", created_at |-> "2024-03-01T09:00:00Z"]

TeamIds == {1, 2}

MemberOf(m) ==
  CASE m = 1 -> [name |-> "Ann", email |-> "ann@x.com", created_at |-> "2024-01-15T09:00:00Z"]
    [] OTHER -> [name |-> "Bob", email |-> "bob@y.org", created_at |-> "2024-03-01T09:00:00Z"]

MemberIds == {1, 2}

\* The text of a list tool: in markdown, the number of rows announced,
\* whether the "none found" line replaces the table, and whether the
\* cursor hint is appended; in JSON, the next_cursor field of the output.
ListText(format, items, next, heading) ==
  IF format = "json" THEN [kind |-> "json", notice |-> FALSE, hint |-> next]
  ELSE [kind |-> "markdown", notice |-> FALSE, heading |-> heading,
        found |-> Len(items), plural |-> Len(items) # 1,
        rows |-> items, hint |-> next]

\* The handler of fathom_list_teams after the response.
ListTeamsResult(items, next, format) ==
  LET output == [total_returned |-> Len(items), has_more |-> next # <<>>,
                 next_cursor |-> next, teams |-> [i \in 1..Len(items) |-> TeamOf(items[i])]]
  IN  [isError |-> FALSE, structured |-> <<output>>,
       text |-> ListText(format, items, next, "# Fathom Teams")]

\* The handler of fathom_list_team_members after the response.
ListTeamMembersResult(items, next, team, format) ==
  LET output == [total_returned |-> Len(items), has_more |-> next # <<>>,
                 next_cursor |-> next, team_filter |-> team,
                 members |-> [i \in 1..Len(items) |-> MemberOf(items[i])]]
  IN  [isError |-> FALSE, structured |-> <<output>>,
       text |-> ListText(format, items, next,
                         IF team # <<>> THEN "# Team Members: " \o team[1]
                         ELSE "# All Team Members")]

\* ---------------------------------------------------------------- webhooks
\* WebhookTriggerType
WebhookTriggerType ==
  {"my_recordings", "shared_external_recordings",
   "my_shared_with_team_recordings", "shared_team_recordings"}

\* z.string().url(): the string parses as an absolute URL, that is, it has
\* a scheme.  A URL string is its scheme, if any, and the rest.
IsUrl_AnyString(url) == TRUE

IsUrl(url) == url.scheme # <<>>

\* z.array(z.nativeEnum(WebhookTriggerType)).min(1)
TriggeredForValid_Distinct(triggered_for) ==
  /\ Len(triggered_for) >= 1
  /\ \A i \in 1..Len(triggered_for) : triggered_for[i] \in WebhookTriggerType
  /\ \A i, j \in 1..Len(triggered_for) : triggered_for[i] = triggered_for[j] => i = j

TriggeredForValid(triggered_for) ==
  /\ Len(triggered_for) >= 1
  /\ \A i \in 1..Len(triggered_for) : triggered_for[i] \in WebhookTriggerType

\* CreateWebhookInputSchema: whether the arguments pass validation.
CreateWebhookInputSchema(args) ==
  IsUrl(args.destination_url) /\ TriggeredForValid(args.triggered_for)

\* The request body create_webhook builds: after the schema's defaults the
\* include flags are never undefined, so all are copied.
WebhookRequestBody(p) ==
  [destination_url |-> p.destination_url, triggered_for |-> p.triggered_for,
   include_action_items |-> FALSE, include_crm_matches |-> FALSE,
   include_summary |-> FALSE, include_transcript |-> p.include_transcript[1]]

\* The Webhook the remote answers a creation with.
WebhookOf(body) ==
  [id |-> "wh_1", url |-> body.destination_url, secret |-> "whsec_1",
   created_at |-> "2024-06-01T00:00:00Z",
   include_transcript |-> body.include_transcript, include_crm_matches |-> FALSE,
   include_summary |-> FALSE, include_action_items |-> FALSE,
   triggered_for |-> body.triggered_for]

\* The handler of fathom_create_webhook after the response.
CreateWebhookResult(webhook) ==
  [isError |-> FALSE, structured |-> << [success |-> TRUE, webhook |-> webhook] >>,
   text |-> [kind |-> "markdown", notice |-> FALSE, id |-> webhook.id,
             transcript |-> IF webhook.include_transcript THEN "Yes" ELSE "No",
             triggers |-> webhook.triggered_for]]

\* The handler of fathom_delete_webhook after the response.
DeleteWebhookResult(id) ==
  [isError |-> FALSE, structured |-> << [success |-> TRUE, deleted_webhook_id |-> id] >>,
   text |-> [kind |-> "markdown", notice |-> FALSE, id |-> id]]

\* ------------------------------------------------------------ handleApiError
\* Failures a handler can catch.  An AxiosError with a response carries its
\* status, the `message` of its body (data) if any and, for 429, the
\* ratelimit-reset header if any; an AxiosError without response carries a
\* code; `message` is error.message and `str` is String(error), the text of
\* a thrown value that is no Error.
Failure(axios, isError, status, code, reset, data, message, str) ==
  [axios |-> axios, isError |-> isError, status |-> status, code |-> code,
   reset |-> reset, data |-> data, message |-> message, str |-> str]

HttpFailure(status, reset, data) ==
  Failure(TRUE, TRUE, status, "ERR_BAD_RESPONSE", reset, data,
          "Request failed", "AxiosError: Request failed")

Failures ==
  { HttpFailure(400, <<>>, <<>>),
    HttpFailure(401, <<>>, <<>>),
    HttpFailure(403, <<>>, <<>>),
    HttpFailure(404, <<>>, <<"no such recording">>),
    HttpFailure(429, <<"30">>, <<>>),
    HttpFailure(429, <<>>, <<>>),
    HttpFailure(500, <<>>, <<>>),
    HttpFailure(503, <<>>, <<>>),
    HttpFailure(504, <<>>, <<>>),
    HttpFailure(418, <<>>, <<"teapot">>),
    Failure(TRUE, TRUE, 0, "ECONNABORTED", <<>>, <<>>, "timeout of 30000ms exceeded", ""),
    Failure(TRUE, TRUE, 0, "ENOTFOUND", <<>>, <<>>, "getaddrinfo ENOTFOUND", ""),
    Failure(TRUE, TRUE, 0, "ECONNREFUSED", <<>>, <<>>, "connect ECONNREFUSED", ""),
    Failure(TRUE, TRUE, 0, "ERR_NETWORK", <<>>, <<>>, "Network Error", ""),
    Failure(FALSE, TRUE, 0, "", <<>>, <<>>, "boom", "Error: boom"),
    Failure(FALSE, FALSE, 0, "", <<>>, <<>>, "", "thrown text") }

\* `x || fallback` on an optional string (absent and "" are falsy).
OrElse(x, fallback) == IF x # <<>> /\ x[1] # "" THEN x[1] ELSE fallback

\* One message: its wording (kind), the status it names (0: none) and the
\* text interpolated into it.
Message(kind, status, detail) == [kind |-> kind, status |-> status, detail |-> detail]

\* `case 500: case 502: case 503:`
IsUnavailableStatus_Only500(status) == status = 500

IsUnavailableStatus(status) == status \in {500, 502, 503}

\* The final return: `error instanceof Error ? error.message : String(error)`.
Unexpected_NoMessage(error) == Message("Unexpected", 0, "")

Unexpected(error) ==
  Message("Unexpected", 0, IF error.isError THEN error.message ELSE error.str)

\* handleApiError(error): the message it returns.
handleApiError(error) ==
  IF error.axios /\ error.status # 0
  THEN CASE error.status = 400 ->
              Message("BadRequest", 0, OrElse(error.data, "Please check your input parameters."))
         [] error.status = 401 -> Message("AuthenticationFailed", 0, "")
         [] error.status = 403 -> Message("AccessDenied", 0, "")
         [] error.status = 404 -> Message("NotFound", 0, "")
         [] error.status = 429 -> Message("RateLimited", 0, OrElse(error.reset, "a moment"))
         [] IsUnavailableStatus(error.status) -> Message("TemporarilyUnavailable", 0, "")
         [] OTHER -> Message("RequestFailedWithStatus", error.status, OrElse(error.data, ""))
  ELSE IF error.axios /\ error.code = "ECONNABORTED" THEN Message("TimedOut", 0, "")
  ELSE IF error.axios /\ error.code \in {"ENOTFOUND", "ECONNREFUSED"}
       THEN Message("UnableToConnect", 0, "")
  ELSE Unexpected(error)

\* The catch block of every handler.
ErrorResult_RawMessage(error) ==
  [isError |-> TRUE, structured |-> <<>>,
   text |-> [kind |-> "error", notice |-> FALSE, message |-> Message("Raw", 0, error.message)]]

ErrorResult_NotFlagged(error) ==
  [isError |-> FALSE, structured |-> <<>>,
   text |-> [kind |-> "error", notice |-> FALSE, message |-> handleApiError(error)]]

ErrorResult(error) ==
  [isError |-> TRUE, structured |-> <<>>,
   text |-> [kind |-> "error", notice |-> FALSE, message |-> handleApiError(error)]]

\* ------------------------------------------------------------------ apiGet
\* The values a Record<string, unknown> handed to apiGet can hold:
\* undefined, null, a string, a number (a natural number here), a boolean,
\* or an array of such values.
JsValue(type, str, num, bool, items) ==
  [type |-> type, str |-> str, num |-> num, bool |-> bool, items |-> items]

\* The decimal text of a natural number.
RECURSIVE NumStr(_)
NumStr(n) ==
  LET Digit(d) ==
        CASE d = 0 -> "0" [] d = 1 -> "1" [] d = 2 -> "2" [] d = 3 -> "3" [] d = 4 -> "4"
          [] d = 5 -> "5" [] d = 6 -> "6" [] d = 7 -> "7" [] d = 8 -> "8" [] OTHER -> "9"
  IN  IF n < 10 THEN Digit(n) ELSE NumStr(n \div 10) \o Digit(n % 10)

\* String(value) for a value that is no array.
ScalarString(value) ==
  CASE value.type = "string" -> value.str
    [] value.type = "number" -> NumStr(value.num)
    [] value.type = "boolean" -> (IF value.bool THEN "true" ELSE "false")
    [] value.type = "null" -> "null"
    [] OTHER -> "undefined"

\* Array.prototype.join(","): null and undefined elements give the empty text.
RECURSIVE JoinComma(_)
JoinComma(items) ==
  IF items = <<>> THEN ""
  ELSE (IF Head(items).type \in {"null", "undefined"} THEN "" ELSE ScalarString(Head(items)))
       \o (IF Len(items) > 1 THEN "," ELSE "")
       \o JoinComma(Tail(items))

\* String(value)
String(value) == IF value.type = "array" THEN JoinComma(value.items) ELSE ScalarString(value)

\* The body of apiGet's loop over Object.entries(params): the pairs one
\* entry appends to the URLSearchParams.
AppendParam_CommaJoined(key, value) ==
  IF value.type \in {"undefined", "null"} THEN <<>>
  ELSE << <<key \o "[]", String(value)>> >>

AppendParam(key, value) ==
  IF value.type \in {"undefined", "null"} THEN <<>>
  ELSE IF value.type = "array"
       THEN [i \in 1..Len(value.items) |-> <<key \o "[]", String(value.items[i])>>]
       ELSE << <<key, String(value)>> >>

\* The URLSearchParams apiGet builds from the entries of params, a sequence
\* of <<key, value>> in the order of Object.entries.
RECURSIVE SearchParams(_)
SearchParams(entries) ==
  IF entries = <<>> THEN <<>>
  ELSE AppendParam(Head(entries)[1], Head(entries)[2]) \o SearchParams(Tail(entries))

\* `config.params`: absent when apiGet was called without params.
ConfigParams(params) == IF params = <<>> THEN <<>> ELSE << SearchParams(params[1]) >>

\* The params callers can hand to apiGet: <<>> (none) or <<entries>>, with
\* at most MaxParams entries of distinct keys.
QueryKeys == {"cursor", "teams", "limit"}

QueryValues ==
  LET a == JsValue("string", "a", 0, FALSE, <<>>)
      b == JsValue("string", "b", 0, FALSE, <<>>)
      Arr(items) == JsValue("array", "", 0, FALSE, items)
  IN  { JsValue("undefined", "", 0, FALSE, <<>>), JsValue("null", "", 0, FALSE, <<>>),
        JsValue("string", "abc", 0, FALSE, <<>>), JsValue("string", "", 0, FALSE, <<>>),
        JsValue("number", "", 20, FALSE, <<>>),
        JsValue("boolean", "", 0, TRUE, <<>>), JsValue("boolean", "", 0, FALSE, <<>>),
        Arr(<<>>), Arr(<<a>>), Arr(<<a, b>>), Arr(<<b, a>>), Arr(<<a, a>>),
        Arr(<< JsValue("number", "", 7, FALSE, <<>>), a >>) }

QueryEntries ==
  LET DistinctKeys(k) ==
        { ks \in [1..k -> QueryKeys] : \A i, j \in 1..k : i # j => ks[i] # ks[j] }
  IN  UNION { { [i \in 1..k |-> <<ks[i], vs[i]>>] :
                  ks \in DistinctKeys(k), vs \in [1..k -> QueryValues] } :
              k \in 0..MaxParams }

ApiGetParams == { <<>> } \cup { <<e>> : e \in QueryEntries }

\* -------------------------------------------------------------- api client
FATHOM_API_BASE_URL == "https://api.fathom.ai/external/v1"

\* axios.create(...) in initializeApiClient(apiKey)
AxiosCreate_NoKey(apiKey) ==
  [baseURL |-> FATHOM_API_BASE_URL, timeout |-> 30000,
   headers |-> [ContentType |-> "application/json", Accept |-> "application/json",
                XApiKey |-> ""]]

AxiosCreate(apiKey) ==
  [baseURL |-> FATHOM_API_BASE_URL, timeout |-> 30000,
   headers |-> [ContentType |-> "application/json", Accept |-> "application/json",
                XApiKey |-> apiKey]]

\* The Error getClient() throws when apiClient is null.
NotInitialized ==
  Failure(FALSE, TRUE, 0, "", <<>>, <<>>,
          "API client not initialized. Please set FATHOM_API_KEY environment variable.",
          "Error: API client not initialized. Please set FATHOM_API_KEY environment variable.")

\* ------------------------------------------------------------ state machine
VARIABLES
  pc,           \* "idle", "awaiting" (suspended at an `await api...`), "done",
                \* "rejected" (the arguments failed the input schema)
  tool,         \* the tool invoked
  params,       \* its validated parameters
  allMeetings,  \* fetchAllMeetings: recording ids collected so far
  cursor,       \* fetchAllMeetings: <<>> (undefined) or <<token>>
  pageCount,    \* fetchAllMeetings: pages fetched
  requests,     \* the requests this invocation has issued, in order
  remote,       \* what the remote has answered to this invocation
  result,       \* <<>> or <<the tool result returned>>
  divisors,     \* the divisors the handler has divided by
  examined,     \* meetings the search loop handed to searchInMeeting
  apiClient,    \* the module variable of the api client: <<>> (null) or
                \* <<the AxiosInstance configuration>>
  main,         \* the process: position of main(), the environment, what it
                \* wrote to stderr, the tools registered, the exit status
  second        \* the locals of a second invocation running at the same time

vars == <<pc, tool, params, allMeetings, cursor, pageCount, requests, remote,
          result, divisors, examined, apiClient, main, second>>

Formats == {"markdown", "json"}
Queries == { <<"a", "b">>, <<"B", "C">> }
\* A caller-supplied limit, or the schema default when the caller gave none.
Limits == (1..MaxLimit) \cup {DefaultLimit}
PagingTools == {"search_meetings", "meeting_stats", "participant_stats"}

\* A handler's parameters; a tool reads the fields of its own schema.
NoParams ==
  [query |-> <<>>, limit |-> 0, format |-> "markdown", recording_id |-> 0,
   cursor |-> <<>>, team |-> <<>>, id |-> "",
   destination_url |-> [scheme |-> <<>>, rest |-> ""],
   triggered_for |-> <<>>, include_transcript |-> <<>>]

\* Arguments a caller can pass to fathom_create_webhook, valid or not.
Urls ==
  { [scheme |-> <<"https">>, rest |-> "//hooks.example.com/fathom"],
    [scheme |-> <<>>, rest |-> "/hooks/fathom"] }

TriggerLists ==
  { <<>>,
    <<"my_recordings">>,
    <<"my_recordings", "shared_team_recordings">>,
    <<"my_recordings", "my_recordings">>,
    <<"my_recordings", "all_recordings">>,
    <<"my_recordings", "shared_external_recordings",
      "my_shared_with_team_recordings", "shared_team_recordings">>,
    <<"my_recordings", "shared_external_recordings",
      "my_shared_with_team_recordings", "shared_team_recordings", "my_recordings">> }

WebhookArgs ==
  { [NoParams EXCEPT !.destination_url = u, !.triggered_for = l, !.include_transcript = i] :
      u \in Urls, l \in TriggerLists, i \in {<<>>, <<TRUE>>} }

\* The parsed arguments: `.optional().default(false)` on the include flag.
ParseWebhookArgs(args) ==
  [args EXCEPT !.include_transcript = IF @ = <<>> THEN <<FALSE>> ELSE @]

\* The parameters each tool's schema lets through (within the bounds).
ParamsOf(t) ==
  CASE t = "search_meetings" ->
         { [NoParams EXCEPT !.query = q, !.limit = l, !.format = f] :
             q \in Queries, l \in Limits, f \in Formats }
    [] t = "participant_stats" ->
         { [NoParams EXCEPT !.limit = l, !.format = f] : l \in Limits, f \in Formats }
    [] t \in {"get_transcript", "get_summary"} ->
         { [NoParams EXCEPT !.recording_id = 7, !.format = f] : f \in Formats }
    [] t = "list_teams" ->
         { [NoParams EXCEPT !.cursor = c, !.format = f] : c \in {<<>>, <<1>>}, f \in Formats }
    [] t = "list_team_members" ->
         { [NoParams EXCEPT !.team = tm, !.cursor = c, !.format = f] :
             tm \in {<<>>, <<"Sales">>}, c \in {<<>>, <<1>>}, f \in Formats }
    [] t = "create_webhook" ->
         { ParseWebhookArgs(a) : a \in { w \in WebhookArgs : CreateWebhookInputSchema(w) } }
    [] t = "delete_webhook" -> { [NoParams EXCEPT !.id = "wh_1"] }
    [] OTHER -> { [NoParams EXCEPT !.format = f] : f \in Formats }

Tools ==
  PagingTools \cup {"list_meetings", "get_transcript", "get_summary", "list_teams",
                    "list_team_members", "create_webhook", "delete_webhook"}

\* A request to the remote: method, endpoint (with the id interpolated into
\* it, if any), query parameters, body, and the default headers of the
\* client that sends it.
NoQuery ==
  [cursor |-> <<>>, team |-> <<>>, include_transcript |-> FALSE, include_summary |-> FALSE]

Request(method, path, recording_id, webhook_id, query, body) ==
  [method |-> method, path |-> path, recording_id |-> recording_id,
   webhook_id |-> webhook_id, query |-> query, body |-> body,
   headers |-> apiClient[1].headers]

\* The queryParams fetchAllMeetings builds for one page.
MeetingsQuery_FirstPage(t, c) ==
  [NoQuery EXCEPT !.include_transcript = (t = "search_meetings"),
                  !.include_summary = (t = "search_meetings")]

MeetingsQuery(t, c) ==
  [NoQuery EXCEPT !.cursor = c,
                  !.include_transcript = (t = "search_meetings"),
                  !.include_summary = (t = "search_meetings")]

\* The request a handler issues at its first `await`.
FirstRequest(t, p) ==
  CASE t \in PagingTools -> Request("GET", "/meetings", 0, "", MeetingsQuery(t, <<>>), <<>>)
    [] t = "list_meetings" ->
         Request("GET", "/meetings", 0, "", [NoQuery EXCEPT !.cursor = p.cursor], <<>>)
    [] t = "get_transcript" ->
         Request("GET", "/recordings/{id}/transcript", p.recording_id, "", NoQuery, <<>>)
    [] t = "get_summary" ->
         Request("GET", "/recordings/{id}/summary", p.recording_id, "", NoQuery, <<>>)
    [] t = "list_teams" ->
         Request("GET", "/teams", 0, "", [NoQuery EXCEPT !.cursor = p.cursor], <<>>)
    [] t = "list_team_members" ->
         Request("GET", "/team_members", 0, "",
                 [NoQuery EXCEPT !.team = p.team, !.cursor = p.cursor], <<>>)
    [] t = "create_webhook" ->
         Request("POST", "/webhooks", 0, "", NoQuery, << WebhookRequestBody(p) >>)
    [] OTHER -> Request("DELETE", "/webhooks/{id}", 0, p.id, NoQuery, <<>>)

\* What the remote has sent: the items of its pages in order, the number of
\* pages, the next_cursor of its last page, whether a page repeated an item
\* of an earlier page, and the failure it answered with, if any.
NoRemote ==
  [served |-> <<>>, pages |-> 0, next |-> <<>>, repeat |-> FALSE, failure |-> <<>>]

\* The values of process.env.FATHOM_API_KEY: unset, empty, or a key.
EnvKeys == { <<>>, <<"">>, <<"key-1">> }

\* main(): "start" (not yet run), "initialized" (initializeApiClient has
\* returned), "registered" (the five register functions have returned),
\* "connected" (server.connect has resolved), "exited" (process.exit).
Main(at, env, stderr, registered, tools, exit) ==
  [pc |-> at, env |-> env, stderr |-> stderr, registered |-> registered,
   tools |-> tools, exit |-> exit]

\* The register functions in the order main() calls them, and the tools
\* each registers.
RegisterCalls ==
  << "registerMeetingTools", "registerRecordingTools", "registerTeamTools",
     "registerWebhookTools", "registerAnalyticsTools" >>

RegisteredBy(register) ==
  CASE register = "registerMeetingTools" -> {"list_meetings"}
    [] register = "registerRecordingTools" -> {"get_summary", "get_transcript"}
    [] register = "registerTeamTools" -> {"list_teams", "list_team_members"}
    [] register = "registerWebhookTools" -> {"create_webhook", "delete_webhook"}
    [] OTHER -> {"search_meetings", "meeting_stats", "participant_stats"}

\* The locals of an invocation that has not started.
NoInvocation ==
  [pc |-> "idle", tool |-> "", params |-> NoParams, allMeetings |-> <<>>, cursor |-> <<>>,
   pageCount |-> 0, requests |-> <<>>, remote |-> NoRemote, result |-> <<>>]

\* No invocation is running.
Idle ==
  /\ second = NoInvocation
  /\ pc = "idle"
  /\ tool = ""
  /\ params = NoParams
  /\ allMeetings = <<>>
  /\ cursor = <<>>
  /\ pageCount = 0
  /\ requests = <<>>
  /\ remote = NoRemote
  /\ result = <<>>
  /\ divisors = {}
  /\ examined = 0

\* The process starts: the module variable apiClient is null, main() has
\* not run.
Init ==
  /\ Idle
  /\ apiClient = <<>>
  /\ \E env \in EnvKeys : main = Main("start", env, <<>>, 0, {}, <<>>)

Invocation == <<pc, tool, params, allMeetings, cursor, pageCount, requests, remote,
                result, divisors, examined, second>>

\* `if (!apiKey)`: undefined and "" are falsy.
NoApiKey_OnlyUnset(env) == env = <<>>

NoApiKey(env) == IF env = <<>> THEN TRUE ELSE env[1] = ""

\* main() without FATHOM_API_KEY: the diagnostic on stderr, process.exit(1).
MainMissingKey ==
  /\ main.pc = "start"
  /\ NoApiKey(main.env)
  /\ main' = [main EXCEPT
               !.pc = "exited",
               !.stderr = @ \o << "ERROR: FATHOM_API_KEY environment variable is required",
                                  "To use this MCP server, you need to:" >>,
               !.exit = <<1>>]
  /\ UNCHANGED <<apiClient, Invocation>>

\* `initializeApiClient(apiKey);` in main().
MainInitializeApiClient ==
  /\ main.pc = "start"
  /\ ~NoApiKey(main.env)
  /\ apiClient' = << AxiosCreate(main.env[1]) >>
  /\ main' = [main EXCEPT !.pc = "initialized"]
  /\ UNCHANGED Invocation

\* The next of the five register calls of main().
MainRegisterTools ==
  /\ main.pc = "initialized"
  /\ LET n == main.registered + 1
     IN  main' = [main EXCEPT
                   !.registered = n,
                   !.tools = @ \cup RegisteredBy(RegisterCalls[n]),
                   !.pc = IF n = Len(RegisterCalls) THEN "registered" ELSE @]
  /\ UNCHANGED <<apiClient, Invocation>>

\* `await server.connect(transport)` resolves; the startup lines go to stderr.
MainConnect ==
  /\ main.pc = "registered"
  /\ main' = [main EXCEPT !.pc = "connected",
                          !.stderr = @ \o << "fathom-mcp-server v0.1.0 running" >>]
  /\ UNCHANGED <<apiClient, Invocation>>

\* `await server.connect(transport)` rejects: main().catch logs and exits.
MainConnectFails ==
  /\ main.pc = "registered"
  /\ main' = [main EXCEPT !.pc = "exited", !.stderr = @ \o << "Fatal error:" >>,
                          !.exit = <<1>>]
  /\ UNCHANGED <<apiClient, Invocation>>

\* The host invokes a registered tool over the connected transport: the
\* handler runs up to its first `await api...`.  getClient() throws when
\* apiClient is null and the handler's catch block returns the error
\* result; otherwise the first request is issued.
Invoke(t, p) ==
  /\ pc = "idle"
  /\ main.pc = "connected"
  /\ t \in main.tools
  /\ tool' = t
  /\ params' = p
  /\ allMeetings' = <<>>
  /\ cursor' = <<>>
  /\ pageCount' = 0
  /\ IF apiClient = <<>>
     THEN /\ pc' = "done"
          /\ requests' = <<>>
          /\ remote' = [remote EXCEPT !.failure = << NotInitialized >>]
          /\ result' = << ErrorResult(NotInitialized) >>
     ELSE /\ pc' = "awaiting"
          /\ requests' = << FirstRequest(t, p) >>
          /\ UNCHANGED <<remote, result>>
  /\ UNCHANGED <<divisors, examined>>
  /\ UNCHANGED <<apiClient, main, second>>

\* What the handler does with the aggregated collection.
HandlerResult(t, p, meetings) ==
  CASE t = "search_meetings" -> SearchMeetingsResult(meetings, p.query, p.limit, p.format)
    [] t = "meeting_stats" -> MeetingStatsResult(meetings, p.format)
    [] OTHER -> ParticipantStatsResult(meetings, p.limit, p.format)

\* A page of /meetings arrives inside fetchAllMeetings: the rest of the loop
\* body, the loop test and either the next request or the handler's
\* remaining code.
FetchPage(items, next) ==
  /\ pc = "awaiting"
  /\ tool \in PagingTools
  /\ Len(remote.served) + Len(items) <= MaxMeetings
  /\ LET all == PushItems(allMeetings, items)
         n   == pageCount + 1
     IN  /\ allMeetings' = all
         /\ cursor' = next
         /\ pageCount' = n
         /\ remote' = [remote EXCEPT
                        !.served = @ \o items, !.pages = @ + 1, !.next = next,
                        !.repeat = @ \/ \E i \in 1..Len(items) : \E j \in 1..Len(remote.served) :
                                            items[i] = remote.served[j]]
         /\ IF ContinueFetching(next, n)
            THEN /\ requests' = Append(requests,
                                   Request("GET", "/meetings", 0, "", MeetingsQuery(tool, next), <<>>))
                 /\ UNCHANGED <<pc, result, divisors, examined>>
            ELSE /\ pc' = "done"
                 /\ result' = << HandlerResult(tool, params, all) >>
                 /\ divisors' = IF tool = "meeting_stats" THEN StatsDivisors(all) ELSE {}
                 /\ examined' = IF tool = "search_meetings"
                                THEN SearchLoop(all, params.query, params.limit, <<>>, 0).examined
                                ELSE 0
                 /\ UNCHANGED requests
  /\ UNCHANGED <<tool, params>>
  /\ UNCHANGED <<apiClient, main, second>>

\* The page of fathom_list_meetings arrives.
ListMeetingsResponse(items, next) ==
  /\ pc = "awaiting"
  /\ tool = "list_meetings"
  /\ pc' = "done"
  /\ remote' = [remote EXCEPT !.served = items, !.pages = 1, !.next = next]
  /\ result' = << ListMeetingsResult(items, next, params.format) >>
  /\ UNCHANGED <<tool, params, allMeetings, cursor, pageCount, requests, divisors, examined>>
  /\ UNCHANGED <<apiClient, main, second>>

\* The transcript of fathom_get_transcript arrives.
GetTranscriptResponse(transcript) ==
  /\ pc = "awaiting"
  /\ tool = "get_transcript"
  /\ pc' = "done"
  /\ remote' = [remote EXCEPT !.served = transcript, !.pages = 1]
  /\ result' = << GetTranscriptResult(params.recording_id, transcript, params.format) >>
  /\ UNCHANGED <<tool, params, allMeetings, cursor, pageCount, requests, divisors, examined>>
  /\ UNCHANGED <<apiClient, main, second>>

\* The summary of fathom_get_summary arrives.
GetSummaryResponse(s) ==
  /\ pc = "awaiting"
  /\ tool = "get_summary"
  /\ pc' = "done"
  /\ remote' = [remote EXCEPT !.served = <<s>>, !.pages = 1]
  /\ result' = << GetSummaryResult(params.recording_id, SummaryOf(s), params.format) >>
  /\ UNCHANGED <<tool, params, allMeetings, cursor, pageCount, requests, divisors, examined>>
  /\ UNCHANGED <<apiClient, main, second>>

\* The page of fathom_list_teams arrives.
ListTeamsResponse(items, next) ==
  /\ pc = "awaiting"
  /\ tool = "list_teams"
  /\ pc' = "done"
  /\ remote' = [remote EXCEPT !.served = items, !.pages = 1, !.next = next]
  /\ result' = << ListTeamsResult(items, next, params.format) >>
  /\ UNCHANGED <<tool, params, allMeetings, cursor, pageCount, requests, divisors, examined>>
  /\ UNCHANGED <<apiClient, main, second>>

\* The page of fathom_list_team_members arrives.
ListTeamMembersResponse(items, next) ==
  /\ pc = "awaiting"
  /\ tool = "list_team_members"
  /\ pc' = "done"
  /\ remote' = [remote EXCEPT !.served = items, !.pages = 1, !.next = next]
  /\ result' = << ListTeamMembersResult(items, next, params.team, params.format) >>
  /\ UNCHANGED <<tool, params, allMeetings, cursor, pageCount, requests, divisors, examined>>
  /\ UNCHANGED <<apiClient, main, second>>

\* The remote has created the webhook of the posted body and answers with it.
CreateWebhookResponse ==
  /\ pc = "awaiting"
  /\ tool = "create_webhook"
  /\ pc' = "done"
  /\ remote' = [remote EXCEPT !.pages = 1]
  /\ result' = << CreateWebhookResult(WebhookOf(requests[1].body[1])) >>
  /\ UNCHANGED <<tool, params, allMeetings, cursor, pageCount, requests, divisors, examined>>
  /\ UNCHANGED <<apiClient, main, second>>

\* The remote has deleted the webhook.
DeleteWebhookResponse ==
  /\ pc = "awaiting"
  /\ tool = "delete_webhook"
  /\ pc' = "done"
  /\ remote' = [remote EXCEPT !.pages = 1]
  /\ result' = << DeleteWebhookResult(params.id) >>
  /\ UNCHANGED <<tool, params, allMeetings, cursor, pageCount, requests, divisors, examined>>
  /\ UNCHANGED <<apiClient, main, second>>

\* fathom_create_webhook is called with arguments its input schema does not
\* accept: the handler is not run.
RejectInput(args) ==
  /\ pc = "idle"
  /\ main.pc = "connected"
  /\ ~CreateWebhookInputSchema(args)
  /\ pc' = "rejected"
  /\ tool' = "create_webhook"
  /\ params' = args
  /\ UNCHANGED <<allMeetings, cursor, pageCount, requests, remote, result, divisors, examined>>
  /\ UNCHANGED <<apiClient, main, second>>

\* The pending request fails, or a statement of the try block throws: the
\* rejection leaves fetchAllMeetings and is caught by the handler's catch
\* block.
RequestFails(error) ==
  /\ pc = "awaiting"
  /\ pc' = "done"
  /\ remote' = [remote EXCEPT !.failure = <<error>>]
  /\ result' = << ErrorResult(error) >>
  /\ UNCHANGED <<tool, params, allMeetings, cursor, pageCount, requests, divisors, examined>>
  /\ UNCHANGED <<apiClient, main, second>>

\* The result has been handed to the host; the invocation's locals are gone.
Return ==
  /\ pc \in {"done", "rejected"}
  /\ pc' = "idle"
  /\ tool' = ""
  /\ params' = NoParams
  /\ allMeetings' = <<>>
  /\ cursor' = <<>>
  /\ pageCount' = 0
  /\ requests' = <<>>
  /\ remote' = NoRemote
  /\ result' = <<>>
  /\ divisors' = {}
  /\ examined' = 0
  /\ UNCHANGED <<apiClient, main, second>>

\* The cursor the remote hands out with its page number `page`.
NextCursors(page) == { <<>>, <<page + 1>> }

Next ==
  \/ MainMissingKey
  \/ MainInitializeApiClient
  \/ MainRegisterTools
  \/ MainConnect
  \/ MainConnectFails
  \/ \E t \in Tools : \E p \in ParamsOf(t) : Invoke(t, p)
  \/ \E items \in SeqsUpTo(MeetingIds, MaxPageItems) :
       \E next \in NextCursors(remote.pages + 1) : FetchPage(items, next)
  \/ \E items \in SeqsUpTo(MeetingIds, MaxPageItems) :
       \E next \in NextCursors(1) : ListMeetingsResponse(items, next)
  \/ \E transcript \in SeqsUpTo(EntryIds, MaxEntries) : GetTranscriptResponse(transcript)
  \/ \E s \in SummaryIds : GetSummaryResponse(s)
  \/ \E items \in SeqsUpTo(TeamIds, MaxPageItems) :
       \E next \in NextCursors(1) : ListTeamsResponse(items, next)
  \/ \E items \in SeqsUpTo(MemberIds, MaxPageItems) :
       \E next \in NextCursors(1) : ListTeamMembersResponse(items, next)
  \/ CreateWebhookResponse
  \/ DeleteWebhookResponse
  \/ \E args \in WebhookArgs : RejectInput(args)
  \/ \E error \in Failures : RequestFails(error)
  \/ Return

Spec == Init /\ [][Next]_vars

\* ------------------------------------------- the api client and its callers
\* The functions exported by the api client, called by any try block of a
\* handler in any order; main() is not part of this specification.  `params`
\* holds the arguments of the call, `requests` the request it handed to
\* axios, `result` what the calling handler returns when the call throws.
\* The request handed to client.get / client.post / client.delete: the
\* config.params or the data, sent with the default headers of the client.
AxiosRequest(method, endpoint, search, data) ==
  [method |-> method, endpoint |-> endpoint, params |-> search, data |-> data,
   headers |-> apiClient[1].headers]

initializeApiClient(apiKey) ==
  /\ apiClient' = << AxiosCreate(apiKey) >>
  /\ UNCHANGED <<main, Invocation>>

\* `const client = getClient();` and the call of the client: getClient()
\* throws when apiClient is null, and the catch block of the calling
\* handler returns the error result.
CallClient(fn, endpoint, args, method, search, data) ==
  /\ pc = "idle"
  /\ params' = [fn |-> fn, endpoint |-> endpoint, args |-> args]
  /\ IF apiClient = <<>>
     THEN /\ pc' = "done"
          /\ requests' = <<>>
          /\ remote' = [remote EXCEPT !.failure = << NotInitialized >>]
          /\ result' = << ErrorResult(NotInitialized) >>
     ELSE /\ pc' = "awaiting"
          /\ requests' = << AxiosRequest(method, endpoint, search, data) >>
          /\ UNCHANGED <<remote, result>>
  /\ UNCHANGED <<tool, allMeetings, cursor, pageCount, divisors, examined, apiClient, main,
                 second>>

apiGet(endpoint, p) ==
  CallClient("apiGet", endpoint, p, "GET", ConfigParams(p), <<>>)

apiPost(endpoint, data) ==
  CallClient("apiPost", endpoint, data, "POST", <<>>, data)

apiDelete(endpoint) ==
  CallClient("apiDelete", endpoint, <<>>, "DELETE", <<>>, <<>>)

\* The response arrives and `response.data` is returned to the caller.
ApiResponse ==
  /\ pc = "awaiting"
  /\ pc' = "done"
  /\ remote' = [remote EXCEPT !.pages = 1]
  /\ UNCHANGED <<tool, params, allMeetings, cursor, pageCount, requests, result,
                 divisors, examined, apiClient, main, second>>

\* The bodies a caller posts.
PostBodies == { <<>> } \cup { << WebhookRequestBody(ParseWebhookArgs(a)) >> :
                               a \in { w \in WebhookArgs : CreateWebhookInputSchema(w) } }

InitApiClient ==
  /\ Idle
  /\ apiClient = <<>>
  /\ main = Main("start", <<>>, <<>>, 0, {}, <<>>)

NextApiClient ==
  \/ \E apiKey \in {"key-1", "key-2"} : initializeApiClient(apiKey)
  \/ pc = "idle" /\ \E p \in ApiGetParams : apiGet("/meetings", p)
  \/ pc = "idle" /\ \E data \in PostBodies : apiPost("/webhooks", data)
  \/ apiDelete("/webhooks/wh_1")
  \/ ApiResponse
  \/ Return

SpecApiClient == InitApiClient /\ [][NextApiClient]_vars

\* ---------------------------------------------------- concurrent invocations
\* Two invocations of the paginating tools, interleaved at their `await`s.
\* The first uses the actions above; the second runs the same code on its
\* own locals, which are those of its own call of the handler and of
\* fetchAllMeetings.
ConcurrentPages == SeqsUpTo({1, 2}, 1)

ConcurrentParams(t) ==
  { p \in ParamsOf(t) : p.format = "json" /\ p.limit \in {0, DefaultLimit}
                          /\ p.query \in { <<>>, <<"a", "b">> } }

\* `const allMeetings: Meeting[] = []` is declared inside fetchAllMeetings:
\* a call pushes to the array of its own activation, not to that of
\* another call.
OwnCollection_Shared(own, foreign) == foreign

OwnCollection(own, foreign) == own

SecondInvoke(t, p) ==
  /\ second.pc = "idle"
  /\ main.pc = "connected"
  /\ t \in main.tools
  /\ second' = [NoInvocation EXCEPT
                 !.tool = t, !.params = p,
                 !.pc = IF apiClient = <<>> THEN "done" ELSE "awaiting",
                 !.requests = IF apiClient = <<>> THEN <<>> ELSE << FirstRequest(t, p) >>,
                 !.remote = IF apiClient = <<>> THEN [@ EXCEPT !.failure = << NotInitialized >>]
                            ELSE @,
                 !.result = IF apiClient = <<>> THEN << ErrorResult(NotInitialized) >> ELSE @]
  /\ UNCHANGED <<pc, tool, params, allMeetings, cursor, pageCount, requests, remote,
                 result, divisors, examined, apiClient, main>>

SecondFetchPage(items, next) ==
  /\ second.pc = "awaiting"
  /\ LET all == PushItems(OwnCollection(second.allMeetings, allMeetings), items)
         n   == second.pageCount + 1
         more == ContinueFetching(next, n)
     IN  second' = [second EXCEPT
                     !.allMeetings = all,
                     !.cursor = next,
                     !.pageCount = n,
                     !.remote = [@ EXCEPT !.served = @ \o items, !.pages = @ + 1, !.next = next],
                     !.requests = IF more
                                  THEN Append(@, Request("GET", "/meetings", 0, "",
                                                         MeetingsQuery(second.tool, next), <<>>))
                                  ELSE @,
                     !.pc = IF more THEN @ ELSE "done",
                     !.result = IF more THEN @
                                ELSE << HandlerResult(second.tool, second.params, all) >>]
  /\ UNCHANGED <<pc, tool, params, allMeetings, cursor, pageCount, requests, remote,
                 result, divisors, examined, apiClient, main>>

SecondRequestFails(error) ==
  /\ second.pc = "awaiting"
  /\ second' = [second EXCEPT !.pc = "done", !.remote = [@ EXCEPT !.failure = <<error>>],
                              !.result = << ErrorResult(error) >>]
  /\ UNCHANGED <<pc, tool, params, allMeetings, cursor, pageCount, requests, remote,
                 result, divisors, examined, apiClient, main>>

SecondReturn ==
  /\ second.pc = "done"
  /\ second' = NoInvocation
  /\ UNCHANGED <<pc, tool, params, allMeetings, cursor, pageCount, requests, remote,
                 result, divisors, examined, apiClient, main>>

\* The cursors the remote hands out with its page `page` here.
ConcurrentCursors(page) ==
  IF page < MaxConcurrentPages THEN NextCursors(page) ELSE { <<>> }

\* The server is connected (with the key "key-1") and no invocation runs.
InitConcurrent ==
  /\ Idle
  /\ apiClient = << AxiosCreate("key-1") >>
  /\ main = Main("connected", <<"key-1">>, << "fathom-mcp-server v0.1.0 running" >>,
                 Len(RegisterCalls), Tools, <<>>)

NextConcurrent ==
  \/ \E t \in PagingTools : \E p \in ConcurrentParams(t) : Invoke(t, p)
  \/ \E items \in ConcurrentPages :
       \E next \in ConcurrentCursors(remote.pages + 1) : FetchPage(items, next)
  \/ RequestFails(HttpFailure(500, <<>>, <<>>))
  \/ Return
  \/ \E t \in PagingTools : \E p \in ConcurrentParams(t) : SecondInvoke(t, p)
  \/ \E items \in ConcurrentPages :
       \E next \in ConcurrentCursors(second.remote.pages + 1) : SecondFetchPage(items, next)
  \/ SecondRequestFails(HttpFailure(500, <<>>, <<>>))
  \/ SecondReturn

SpecConcurrent == InitConcurrent /\ [][NextConcurrent]_vars

\* =================================================================== claims
\* An invocation of a paginating tool has returned without a remote failure.
Aggregated == pc = "done" /\ tool \in PagingTools /\ remote.failure = <<>>

\* C1: fetchAllMeetings never issues more than 10 fetches; it goes on while
\* the last response carried a next_cursor and fewer than 10 pages were
\* fetched, and against a remote that returns a next_cursor on every page it
\* stops after exactly 10 fetches and returns a result that is no error.
C1_PageCeiling ==
  /\ Len(requests) <= 10
  /\ (pc = "awaiting" /\ tool \in PagingTools) =>
       /\ Len(requests) = remote.pages + 1
       /\ remote.pages > 0 => remote.next # <<>>
  /\ Aggregated =>
       /\ Len(requests) = remote.pages
       /\ remote.next = <<>> \/ remote.pages = 10
       /\ remote.next # <<>> => (Len(requests) = 10 /\ ~result[1].isError)

C1_Witness ==
  /\ Aggregated
  /\ remote.next # <<>>
  /\ Len(requests) = 10
  /\ ~result[1].isError

\* C2: when a page fetch of fetchAllMeetings fails, the invocation returns an
\* error result (error flag set, the message of handleApiError, no
\* structured content, so none of the items fetched before), and the failed
\* request was the last one issued: nothing was requested after it, and it
\* was not issued again.
C2_FailureAborts ==
  (pc = "done" /\ tool \in PagingTools /\ remote.failure # <<>>) =>
    /\ result[1].isError
    /\ result[1].structured = <<>>
    /\ result[1].text.kind = "error"
    /\ result[1].text.message = handleApiError(remote.failure[1])
    /\ Len(requests) = remote.pages + 1

C2_Witness ==
  /\ pc = "done" /\ tool \in PagingTools /\ remote.failure # <<>>
  /\ remote.pages >= 1
  /\ Len(remote.served) >= 1
  /\ result[1].isError

\* C3: the collection fetchAllMeetings has built is, at every moment, the
\* items of the pages received so far in the order the remote sent them,
\* repeated items included.
C3_Concatenation ==
  tool \in PagingTools => allMeetings = remote.served

C3_Witness ==
  /\ Aggregated
  /\ remote.repeat
  /\ remote.pages >= 2
  /\ allMeetings = remote.served
  /\ \E i, j \in 1..Len(allMeetings) : i < j /\ allMeetings[i] = allMeetings[j]

\* A size-governed tool has returned a result that is no error.
Rendered ==
  /\ pc = "done"
  /\ tool \in {"list_meetings", "get_transcript", "search_meetings"}
  /\ ~result[1].isError

\* The number of items of the result that was rendered: the meetings of the
\* page, the utterances of the transcript, the search results.
ItemCount ==
  IF tool = "search_meetings" THEN Len(result[1].structured[1].results)
  ELSE Len(remote.served)

\* The item count a text reports: the reduced count its truncation message
\* states or, when the message states none, the number of items of a text
\* that was rendered anew; a text cut by slice() that states no count
\* reports none.
ReportedCount(text) ==
  IF text.stated # <<>> THEN <<text.stated[2]>>
  ELSE IF ~text.sliced THEN <<Len(text.rendered)>>
  ELSE <<>>

\* C4: the text of every result of list_meetings, get_transcript and
\* search_meetings, in markdown and in JSON, is at most 25,000 characters.
C4_TextWithinLimit ==
  Rendered => result[1].text.len <= 25000

StatsReturned ==
  pc = "done" /\ tool = "meeting_stats" /\ result[1].structured # <<>>

\* The sum of the counts of a per-team table.
RECURSIVE SumOfCounts(_)
SumOfCounts(f) ==
  IF DOMAIN f = {} THEN 0
  ELSE LET k == CHOOSE x \in DOMAIN f : TRUE
       IN  f[k] + SumOfCounts([x \in DOMAIN f \ {k} |-> f[x]])

\* C6: for a non-empty collection the counts of meetings_by_team sum to
\* total_meetings, every bucket counts the meetings of its team, the
\* meetings whose recorder has no team are those of the bucket "No Team",
\* and internal + external = total_meetings with internal the number of
\* meetings classified only_internal.
C6_StatsSums ==
  StatsReturned =>
    LET o      == result[1].structured[1]
        all    == remote.served
        byTeam == o.meetings_by_team
        noTeam == { i \in 1..Len(all) :
                      MeetingOf(all[i]).recorded_by.team \in {<<>>, <<"">>} }
    IN  /\ o.total_meetings = Len(all)
        /\ Len(all) > 0
        /\ SumOfCounts(byTeam) = o.total_meetings
        /\ \A i \in 1..Len(all) \ noTeam :
             /\ MeetingOf(all[i]).recorded_by.team[1] \in DOMAIN byTeam
             /\ byTeam[MeetingOf(all[i]).recorded_by.team[1]] =
                  Cardinality({ j \in 1..Len(all) \ noTeam :
                    MeetingOf(all[j]).recorded_by.team = MeetingOf(all[i]).recorded_by.team })
        /\ noTeam # {} => ("No Team" \in DOMAIN byTeam /\ byTeam["No Team"] = Cardinality(noTeam))
        /\ o.internal_vs_external.internal + o.internal_vs_external.external = o.total_meetings
        /\ o.internal_vs_external.internal =
             Cardinality({ i \in 1..Len(all) :
               MeetingOf(all[i]).calendar_invitees_domains_type = "only_internal" })

C6_Witness ==
  /\ StatsReturned
  /\ Len(remote.served) = 2
  /\ DOMAIN result[1].structured[1].meetings_by_team = {"Sales", "No Team"}
  /\ result[1].structured[1].internal_vs_external = [internal |-> 1, external |-> 1]

\* C7: when the aggregated collection is empty, meeting_stats and
\* participant_stats return the "no meetings found" result, which is no
\* error; and no handler ever divides by a meeting count of zero.
C7_EmptyCollection ==
  /\ 0 \notin divisors
  /\ (Aggregated /\ tool \in {"meeting_stats", "participant_stats"} /\ remote.served = <<>>) =>
       /\ ~result[1].isError
       /\ result[1].text.kind = "nodata"
       /\ result[1].structured = <<>>
  /\ (Aggregated /\ tool = "meeting_stats" /\ remote.served # <<>>) =>
       divisors = {Len(remote.served)}

C7_Witness ==
  /\ Aggregated
  /\ tool = "meeting_stats"
  /\ remote.served = <<>>
  /\ remote.pages >= 2
  /\ result[1].text.kind = "nodata"
  /\ ~result[1].isError

\* The minutes of a recording of `ms` milliseconds: the integer nearest to
\* ms / 60000, the larger one on an exact half.
NearestMinute(ms) ==
  CHOOSE d \in 0..100 : 60000 * d - 30000 <= ms /\ ms < 60000 * d + 30000

\* C8: total_minutes is the sum over the collection of the recording's
\* milliseconds (recording_end_time - recording_start_time, not the
\* scheduled times) divided by 60000 and rounded to the nearest integer,
\* halves up; min and max are the least and greatest of these values; a
\* recording of 5,430,000 ms counts 91 minutes.
C8_DurationMinutes ==
  StatsReturned =>
    LET o   == result[1].structured[1].duration_stats
        all == remote.served
        d(i) == NearestMinute(MeetingOf(all[i]).recording_end_time
                              - MeetingOf(all[i]).recording_start_time)
    IN  /\ o.total_minutes = SumSeq([i \in 1..Len(all) |-> d(i)])
        /\ \E i \in 1..Len(all) : o.min_minutes = d(i)
        /\ \E i \in 1..Len(all) : o.max_minutes = d(i)
        /\ \A i \in 1..Len(all) : o.min_minutes <= d(i) /\ d(i) <= o.max_minutes
        /\ (all = <<1>> /\ MeetingOf(1).recording_end_time - MeetingOf(1).recording_start_time
                             = 5430000) => o.total_minutes = 91

C8_Witness ==
  /\ StatsReturned
  /\ remote.served = <<1, 2>>
  /\ result[1].structured[1].duration_stats.total_minutes = 91 + 90
  /\ result[1].structured[1].duration_stats.max_minutes = 91

\* search_meetings has returned its output.
SearchReturned ==
  pc = "done" /\ tool = "search_meetings" /\ result[1].structured # <<>>

\* C9: search_meetings returns at most `limit` results, matches_found is
\* their number, and total_searched is the size of the whole aggregated
\* collection, also when the scan stopped early.
C9_SearchCap ==
  SearchReturned =>
    LET o == result[1].structured[1]
    IN  /\ Len(o.results) <= params.limit
        /\ o.matches_found = Len(o.results)
        /\ o.total_searched = Len(remote.served)

C9_Witness ==
  /\ SearchReturned
  /\ Len(result[1].structured[1].results) = params.limit
  /\ examined < Len(remote.served)
  /\ result[1].structured[1].total_searched = Len(remote.served)

\* The positions of the collection whose meeting matches the query.
Matching(all, query) ==
  { i \in 1..Len(all) : searchInMeeting(MeetingOf(all[i]), query) # <<>> }

\* C10: the results are the first min(limit, number of matching meetings)
\* matching meetings, in the order of the collection; when the limit was
\* reached, the meetings after the limit-th match were not examined, and
\* otherwise every meeting was.
C10_FirstMatches ==
  SearchReturned =>
    LET all  == remote.served
        rs   == result[1].structured[1].results
        hit  == Matching(all, params.query)
        k    == Min(params.limit, Cardinality(hit))
        \* the position of the j-th matching meeting
        pos(j) == CHOOSE i \in hit : Cardinality({ h \in hit : h <= i }) = j
    IN  /\ Len(rs) = k
        /\ \A j \in 1..k : rs[j] = searchInMeeting(MeetingOf(all[pos(j)]), params.query)[1]
        /\ examined = IF Cardinality(hit) >= params.limit THEN pos(params.limit) ELSE Len(all)

C10_Witness ==
  /\ SearchReturned
  /\ remote.served = <<1, 3>>
  /\ params.query = <<"a", "b">>
  /\ params.limit = 1
  /\ examined = 1
  /\ Len(result[1].structured[1].results) = 1
  /\ result[1].structured[1].results[1].recording_id = 1

\* The query occurs in the text at some offset, letters compared without
\* regard to case.
ContainsIgnoringCase(s, query) ==
  \E i \in 1..Len(s.body) :
    /\ i + Len(query) - 1 <= Len(s.body)
    /\ \A k \in 1..Len(query) : LowerChar(s.body[i + k - 1]) = LowerChar(query[k])

\* Where a meeting holds the query: its title or calendar-event title, one
\* of the utterances of its transcript, the body of its summary.
FoundIn(m, query) ==
  [in_title |-> \/ ContainsIgnoringCase(m.title, query)
                \/ \E i \in 1..Len(m.meeting_title) : ContainsIgnoringCase(m.meeting_title[i], query),
   in_transcript |-> \E t \in 1..Len(m.transcript) : \E i \in 1..Len(m.transcript[t]) :
                        ContainsIgnoringCase(Entry(m.transcript[t][i]).text, query),
   in_summary |-> \E d \in 1..Len(m.default_summary) :
                    \E b \in 1..Len(m.default_summary[d].markdown_formatted) :
                      ContainsIgnoringCase(m.default_summary[d].markdown_formatted[b], query)]

AnyFlag(f) == f.in_title \/ f.in_transcript \/ f.in_summary

\* C11: the results are, in order, the examined meetings that hold the
\* query in their title (or calendar-event title), in an utterance or in
\* their summary, each with exactly these three flags; a meeting holding
\* the query nowhere has no result, a meeting without transcript and
\* summary matches by title only, and every result has a flag set.
C11_MatchFlags ==
  SearchReturned =>
    LET rs   == result[1].structured[1].results
        seen == SubSeq(remote.served, 1, examined)
        hits == SelectSeq(seen, LAMBDA id : AnyFlag(FoundIn(MeetingOf(id), params.query)))
    IN  /\ Len(rs) = Len(hits)
        /\ \A j \in 1..Len(rs) :
             LET f == FoundIn(MeetingOf(hits[j]), params.query)
             IN  /\ rs[j].recording_id = hits[j]
                 /\ rs[j].in_title = f.in_title
                 /\ rs[j].in_transcript = f.in_transcript
                 /\ rs[j].in_summary = f.in_summary
                 /\ AnyFlag(rs[j])
                 /\ (MeetingOf(hits[j]).transcript = <<>> /\ MeetingOf(hits[j]).default_summary = <<>>)
                      => (rs[j].in_title /\ ~rs[j].in_transcript /\ ~rs[j].in_summary)

\* A meeting holding the query nowhere was examined and left out, and the
\* next one matched in its transcript alone.
C11_Witness ==
  /\ SearchReturned
  /\ remote.served = <<3, 1>>
  /\ params.query = <<"B", "C">>
  /\ examined = 2
  /\ Len(result[1].structured[1].results) = 1
  /\ result[1].structured[1].results[1].recording_id = 1
  /\ ~result[1].structured[1].results[1].in_title
  /\ result[1].structured[1].results[1].in_transcript

\* C12: every search result carries at most 3 context snippets, those of
\* the transcript and that of the summary counted together.
C12_SnippetCap ==
  SearchReturned =>
    \A j \in 1..Len(result[1].structured[1].results) :
      Len(result[1].structured[1].results[j].context_snippets) <= 3

\* A meeting with four matching utterances and a matching summary: three
\* snippets, all from the transcript, none from the summary.
C12_Witness ==
  /\ SearchReturned
  /\ \E j \in 1..Len(result[1].structured[1].results) :
       LET r == result[1].structured[1].results[j]
           m == MeetingOf(r.recording_id)
       IN  /\ Len(r.context_snippets) = 3
           /\ r.in_summary
           /\ \A k \in 1..3 : r.context_snippets[k].source = "transcript"
           /\ Cardinality({ i \in 1..Len(m.transcript[1]) :
                              ContainsIgnoringCase(Entry(m.transcript[1][i]).text, params.query) }) >= 4

\* A remote call of the invocation has failed and the handler has returned.
Failed == pc = "done" /\ remote.failure # <<>>

\* C13 (as claimed): a failure with any HTTP status from 500 to 599 is
\* reported with the "temporarily unavailable, try again later" message.
C13_Every5xxUnavailable ==
  (Failed /\ remote.failure[1].axios /\ remote.failure[1].status \in 500..599) =>
    result[1].text.message.kind = "TemporarilyUnavailable"

\* C13 (amended): of the 5xx statuses exactly 500, 502 and 503 are reported
\* with the "temporarily unavailable" message; any other 5xx status is
\* reported with the request-failed message that names the status.
C13_UnavailableStatuses ==
  (Failed /\ remote.failure[1].axios /\ remote.failure[1].status \in 500..599) =>
    LET status  == remote.failure[1].status
        message == result[1].text.message
    IN  IF status \in {500, 502, 503}
        THEN message.kind = "TemporarilyUnavailable"
        ELSE message.kind = "RequestFailedWithStatus" /\ message.status = status

\* Status 503 was reported as temporarily unavailable.
C13_Witness ==
  /\ Failed
  /\ remote.failure[1].status = 503
  /\ result[1].isError
  /\ result[1].text.message.kind = "TemporarilyUnavailable"

\* The message the failure taxonomy assigns to a failure: its wording and,
\* where the taxonomy names one, the text interpolated into it.
TaxonomyMessage(error) ==
  LET http == error.axios /\ error.status # 0
  IN  CASE http /\ error.status = 400 -> <<"BadRequest">>
        [] http /\ error.status = 401 -> <<"AuthenticationFailed">>
        [] http /\ error.status = 403 -> <<"AccessDenied">>
        [] http /\ error.status = 404 -> <<"NotFound">>
        [] http /\ error.status = 429 /\ error.reset # <<>> -> <<"RateLimited", error.reset[1]>>
        [] http /\ error.status = 429 /\ error.reset = <<>> -> <<"RateLimited", "a moment">>
        [] error.axios /\ ~http /\ error.code = "ECONNABORTED" -> <<"TimedOut">>
        [] error.axios /\ ~http /\ error.code \in {"ENOTFOUND", "ECONNREFUSED"} -> <<"UnableToConnect">>
        [] OTHER -> <<"Unexpected", IF error.isError THEN error.message ELSE error.str>>

\* What a returned message says, in the same shape.
Said(message) ==
  IF message.kind \in {"RateLimited", "Unexpected"}
  THEN <<message.kind, message.detail>>
  ELSE <<message.kind>>

ParticipantsReturned ==
  pc = "done" /\ tool = "participant_stats" /\ result[1].structured # <<>>

\* The invitee appearances of the collection: (meeting position, invitee
\* position) pairs.
Appearances(all) ==
  UNION { { <<i, j>> : j \in 1..Len(MeetingOf(all[i]).calendar_invitees) } : i \in 1..Len(all) }

InviteeAt(all, a) == MeetingOf(all[a[1]]).calendar_invitees[a[2]]

\* The lower-cased domains of the collection and the appearances of one.
DomainsOf(all) == { toLowerCaseStr(InviteeAt(all, a).email_domain) : a \in Appearances(all) }

DomainAppearances(all, domain) ==
  Cardinality({ a \in Appearances(all) : toLowerCaseStr(InviteeAt(all, a).email_domain) = domain })

RECURSIVE SumCounts(_)
SumCounts(table) ==
  IF table = <<>> THEN 0 ELSE Head(table).count + SumCounts(Tail(table))

\* C16 (as claimed): the counts of domain_breakdown sum to the number of
\* invitee appearances of the aggregated collection, whatever the limit.
C16_DomainSumIsTotal ==
  ParticipantsReturned =>
    SumCounts(result[1].structured[1].domain_breakdown) = Cardinality(Appearances(remote.served))

\* C16 (amended): domain_breakdown holds distinct lower-cased domains, each
\* with the number of its invitee appearances; its counts sum to the
\* number of all invitee appearances when the collection has at most
\* `limit` distinct domains, and to less when it has more.
C16_DomainSum ==
  ParticipantsReturned =>
    LET db    == result[1].structured[1].domain_breakdown
        all   == remote.served
        total == Cardinality(Appearances(all))
    IN  /\ \A i \in 1..Len(db) : db[i].count = DomainAppearances(all, db[i].domain)
        /\ \A i, j \in 1..Len(db) : db[i].domain = db[j].domain => i = j
        /\ Len(db) = Min(params.limit, Cardinality(DomainsOf(all)))
        /\ Cardinality(DomainsOf(all)) <= params.limit => SumCounts(db) = total
        /\ Cardinality(DomainsOf(all)) > params.limit => SumCounts(db) < total

\* Two meetings, three appearances, the domain x.com once as "X.com": the
\* whole breakdown is returned and sums to 3.
C16_Witness ==
  /\ ParticipantsReturned
  /\ remote.served = <<1, 2>>
  /\ params.limit = 2
  /\ result[1].structured[1].domain_breakdown =
       << [domain |-> "x.com", count |-> 2], [domain |-> "y.org", count |-> 1] >>

\* The keys of a table of the collection and the count of each: lower-cased
\* invitee e-mails, lower-cased recorder e-mails.
ParticipantKeys(all) == { toLowerCaseStr(InviteeAt(all, a).email) : a \in Appearances(all) }

ParticipantAppearances(all, key) ==
  Cardinality({ a \in Appearances(all) : toLowerCaseStr(InviteeAt(all, a).email) = key })

RecorderKeys(all) == { toLowerCaseStr(MeetingOf(all[i]).recorded_by.email) : i \in 1..Len(all) }

Recordings(all, key) ==
  Cardinality({ i \in 1..Len(all) : toLowerCaseStr(MeetingOf(all[i]).recorded_by.email) = key })

\* A returned table (the keys and counts of its rows, in order) holds the
\* top `limit` of the given counts: non-increasing, at most `limit` rows,
\* one row per key with the count of that key, no key left out whose count
\* exceeds that of a row.
IsTop(rowKeys, rowCounts, keys, countOf(_), limit) ==
  /\ Len(rowKeys) = Min(limit, Cardinality(keys))
  /\ \A i \in 1..Len(rowKeys) : rowKeys[i] \in keys /\ rowCounts[i] = countOf(rowKeys[i])
  /\ \A i, j \in 1..Len(rowKeys) : rowKeys[i] = rowKeys[j] => i = j
  /\ \A i, j \in 1..Len(rowKeys) : i < j => rowCounts[i] >= rowCounts[j]
  /\ \A k \in keys : (\A i \in 1..Len(rowKeys) : rowKeys[i] # k) =>
                        \A i \in 1..Len(rowKeys) : countOf(k) <= rowCounts[i]

\* C17: each of top_participants, domain_breakdown and top_recorders is in
\* non-increasing order of count, has at most `limit` rows, and holds the
\* rows of highest count.
C17_TopTables ==
  ParticipantsReturned =>
    LET o   == result[1].structured[1]
        all == remote.served
        tp  == o.top_participants
        db  == o.domain_breakdown
        tr  == o.top_recorders
    IN  /\ Len(tp) <= params.limit /\ Len(db) <= params.limit /\ Len(tr) <= params.limit
        /\ IsTop([i \in 1..Len(tp) |-> toLowerCaseStr(tp[i].email)],
                 [i \in 1..Len(tp) |-> tp[i].meeting_count],
                 ParticipantKeys(all), LAMBDA k : ParticipantAppearances(all, k), params.limit)
        /\ IsTop([i \in 1..Len(db) |-> db[i].domain],
                 [i \in 1..Len(db) |-> db[i].count],
                 DomainsOf(all), LAMBDA k : DomainAppearances(all, k), params.limit)
        /\ IsTop([i \in 1..Len(tr) |-> toLowerCaseStr(tr[i].email)],
                 [i \in 1..Len(tr) |-> tr[i].recording_count],
                 RecorderKeys(all), LAMBDA k : Recordings(all, k), params.limit)

\* The participant seen first has the lower count: the tables are
\* reordered, and with limit 1 the first-seen participant is left out.
C17_Witness ==
  /\ ParticipantsReturned
  /\ remote.served = <<1, 2>>
  /\ params.limit = 1
  /\ result[1].structured[1].top_participants =
       << [name |-> "Ann", email |-> "Ann@x.com", meeting_count |-> 2] >>
  /\ result[1].structured[1].domain_breakdown = << [domain |-> "x.com", count |-> 2] >>

\* C15: whatever the tool, a failure of the remote call or of a statement
\* of the try block ends the invocation with a result: its error flag is
\* set, it has no structured content and its text is the one message
\* handleApiError gives for the failure.  An invocation without failure
\* returns a result that is not flagged.
C15_FailureIsResult ==
  /\ tool \in Tools \cup {""}
  /\ (pc = "done") => (result # <<>> /\ (result[1].isError <=> remote.failure # <<>>))
  /\ Failed =>
       /\ Len(result) = 1
       /\ result[1].isError
       /\ result[1].structured = <<>>
       /\ result[1].text = [kind |-> "error", notice |-> FALSE,
                            message |-> handleApiError(remote.failure[1])]
       /\ result[1].text.message.kind \in
            {"BadRequest", "AuthenticationFailed", "AccessDenied", "NotFound", "RateLimited",
             "TemporarilyUnavailable", "RequestFailedWithStatus", "TimedOut",
             "UnableToConnect", "Unexpected"}

\* The DELETE of fathom_delete_webhook was answered with 404.
C15_Witness ==
  /\ Failed
  /\ tool = "delete_webhook"
  /\ remote.failure[1].status = 404
  /\ result[1].isError
  /\ result[1].text.message.kind = "NotFound"

\* The arguments of the create_webhook call at hand.
WebhookCall == tool = "create_webhook" /\ pc # "idle"

OutsideVocabulary(triggered_for) ==
  \E i \in 1..Len(triggered_for) :
    triggered_for[i] \notin {"my_recordings", "shared_external_recordings",
                             "my_shared_with_team_recordings", "shared_team_recordings"}

HasRepeat(triggered_for) ==
  \E i, j \in 1..Len(triggered_for) : i # j /\ triggered_for[i] = triggered_for[j]

\* C18: a create_webhook call whose triggered_for is empty or holds a value
\* outside the four trigger types, or whose destination_url is no absolute
\* URL, is rejected by validation: no request is issued, the handler
\* returns nothing.
C18_InvalidNeverPosted ==
  (/\ WebhookCall
   /\ \/ params.triggered_for = <<>>
      \/ OutsideVocabulary(params.triggered_for)
      \/ params.destination_url.scheme = <<>>) =>
    (pc = "rejected" /\ requests = <<>> /\ result = <<>> /\ remote.pages = 0)

\* A call with a trigger type outside the vocabulary and a valid URL was
\* rejected.
C18_Witness ==
  /\ pc = "rejected"
  /\ tool = "create_webhook"
  /\ params.triggered_for = <<"my_recordings", "all_recordings">>
  /\ params.destination_url.scheme = <<"https">>
  /\ requests = <<>>

\* C19 (as claimed): a create_webhook call whose triggered_for repeats a
\* trigger type or has more than 4 entries is rejected and never sent.
C19_RepeatsRejected ==
  (WebhookCall /\ (HasRepeat(params.triggered_for) \/ Len(params.triggered_for) > 4)) =>
    (pc = "rejected" /\ requests = <<>>)

\* C19 (amended): a call is rejected only for an empty list, a value
\* outside the vocabulary or a bad URL; every other list, with repeated
\* types or more than 4 entries as well, is posted as it was given.
C19_ListPostedAsGiven ==
  WebhookCall =>
    /\ pc = "rejected" =>
         \/ params.triggered_for = <<>>
         \/ OutsideVocabulary(params.triggered_for)
         \/ params.destination_url.scheme = <<>>
    /\ pc # "rejected" =>
         /\ Len(requests) = 1
         /\ requests[1].method = "POST"
         /\ requests[1].body[1].triggered_for = params.triggered_for
         /\ Len(params.triggered_for) >= 1
         /\ ~OutsideVocabulary(params.triggered_for)

\* A list of five entries that repeats a type was posted and the webhook
\* created.
C19_Witness ==
  /\ WebhookCall
  /\ pc = "done"
  /\ ~result[1].isError
  /\ Len(params.triggered_for) = 5
  /\ HasRepeat(params.triggered_for)
  /\ requests[1].body[1].triggered_for = params.triggered_for
  /\ result[1].structured[1].webhook.triggered_for = params.triggered_for

\* The tools whose schema has response_format.
FormatTools ==
  {"list_meetings", "get_summary", "get_transcript", "list_teams", "list_team_members",
   "search_meetings", "meeting_stats", "participant_stats"}

\* The parameters of the invocation at hand with the other response_format.
TwinParams ==
  [params EXCEPT !.format = IF @ = "markdown" THEN "json" ELSE "markdown"]

\* The requests an invocation with TwinParams issues when the remote hands
\* out the same cursors: the first request of the handler, then one page
\* request of fetchAllMeetings per cursor.
TwinRequests ==
  [i \in 1..Len(requests) |->
     IF i = 1 THEN FirstRequest(tool, TwinParams)
     ELSE [FirstRequest(tool, TwinParams) EXCEPT !.query.cursor = requests[i].query.cursor]]

\* The result an invocation with TwinParams returns on the same responses.
TwinResult ==
  LET p == TwinParams
  IN  CASE tool = "list_meetings" -> ListMeetingsResult(remote.served, remote.next, p.format)
        [] tool = "get_transcript" -> GetTranscriptResult(p.recording_id, remote.served, p.format)
        [] tool = "get_summary" ->
             GetSummaryResult(p.recording_id, SummaryOf(remote.served[1]), p.format)
        [] tool = "list_teams" -> ListTeamsResult(remote.served, remote.next, p.format)
        [] tool = "list_team_members" ->
             ListTeamMembersResult(remote.served, remote.next, p.team, p.format)
        [] tool = "search_meetings" ->
             SearchMeetingsResult(remote.served, p.query, p.limit, p.format)
        [] tool = "meeting_stats" -> MeetingStatsResult(remote.served, p.format)
        [] OTHER -> ParticipantStatsResult(remote.served, p.limit, p.format)

\* C20: an invocation and the one that differs from it in response_format
\* alone issue the same requests and, on the same responses, return the
\* same structured content; only the text may differ.
C20_FormatRendersOnly ==
  (tool \in FormatTools /\ pc \in {"awaiting", "done"}) =>
    /\ requests = TwinRequests
    /\ (pc = "done" /\ remote.failure = <<>>) =>
         /\ result[1].structured = TwinResult.structured
         /\ result[1].isError = TwinResult.isError
         /\ [result[1] EXCEPT !.text = TwinResult.text] = TwinResult

\* A summary was returned as JSON; the markdown invocation returns another
\* text and the same structured content.
C20_Witness ==
  /\ pc = "done"
  /\ tool = "get_summary"
  /\ remote.failure = <<>>
  /\ params.format = "json"
  /\ result[1].text # TwinResult.text
  /\ result[1].structured = << [recording_id |-> 7, summary |-> SummaryOf(1)] >>
  /\ TwinResult.structured = result[1].structured

\* The list tools whose response carries a next_cursor.
ListTools == {"list_meetings", "list_teams", "list_team_members"}

Listed == pc = "done" /\ tool \in ListTools /\ remote.failure = <<>>

\* C21: whenever the response of a list tool carries a next_cursor, the
\* text of the result names that cursor for loading more results and
\* has_more is true, whether or not the text was truncated.
C21_HintWithCursor ==
  (Listed /\ remote.next # <<>>) =>
    /\ result[1].text.hint = remote.next
    /\ result[1].structured[1].has_more

\* The pairs of a URLSearchParams that have the given name, in order.
PairsNamed(search, name) == SelectSeq(search, LAMBDA pair : pair[1] = name)

\* The text of a scalar query value as it stands in a URL.
QueryText(v) ==
  CASE v.type = "string" -> v.str
    [] v.type = "number" -> (IF v.num = 20 THEN "20" ELSE "7")
    [] OTHER -> (IF v.bool THEN "true" ELSE "false")

GetIssued ==
  /\ pc \in {"awaiting", "done"}
  /\ params.fn = "apiGet"
  /\ requests # <<>>
  /\ params.args # <<>>

\* C22: the query apiGet sends holds, for each array parameter, one pair
\* `key[]`=element per element in element order; for each scalar parameter
\* the single pair key=value; no pair for a null or undefined parameter;
\* and no other pair.
C22_QuerySerialization ==
  GetIssued =>
    LET entries == params.args[1]
        search == requests[1].params[1]
    IN  /\ \A i \in 1..Len(entries) :
             LET key == entries[i][1]
                 v == entries[i][2]
                 plain == PairsNamed(search, key)
                 bracketed == PairsNamed(search, key \o "[]")
             IN  CASE v.type \in {"undefined", "null"} -> plain = <<>> /\ bracketed = <<>>
                   [] v.type = "array" ->
                        /\ plain = <<>>
                        /\ bracketed = [j \in 1..Len(v.items) |->
                                          <<key \o "[]", QueryText(v.items[j])>>]
                   [] OTHER -> plain = << <<key, QueryText(v)>> >> /\ bracketed = <<>>
        /\ \A j \in 1..Len(search) :
             \E i \in 1..Len(entries) :
               search[j][1] \in {entries[i][1], entries[i][1] \o "[]"}

\* Two teams and a numeric limit were sent.
C22_Witness ==
  /\ GetIssued
  /\ Len(params.args[1]) = 2
  /\ params.args[1][1][1] = "teams"
  /\ params.args[1][1][2].type = "array"
  /\ Len(params.args[1][1][2].items) = 2
  /\ params.args[1][1][2].items[1].str = "b"
  /\ params.args[1][1][2].items[2].str = "a"
  /\ params.args[1][2][1] = "limit"
  /\ params.args[1][2][2].num = 20
  /\ requests[1].params[1] = << <<"teams[]", "b">>, <<"teams[]", "a">>, <<"limit", "20">> >>

\* The requests of the invocation that have not been answered yet.
InFlight ==
  Len(requests) - remote.pages - (IF remote.failure # <<>> THEN 1 ELSE 0)

\* C23: within one paginating invocation at most one request is in flight
\* (exactly one while the invocation is suspended, none once it is done),
\* the first request carries no cursor, and a further request is issued
\* only in the step in which the response to the previous one arrives and
\* carries the next_cursor of that response unchanged.
C23_SequentialPages ==
  /\ [](tool \in PagingTools =>
          /\ InFlight = (IF pc = "awaiting" THEN 1 ELSE 0)
          /\ requests # <<>> => requests[1].query.cursor = <<>>)
  /\ [][(tool \in PagingTools /\ tool' = tool /\ requests' # requests) =>
          /\ requests' = Append(requests, requests'[Len(requests')])
          /\ remote'.pages = Len(requests)
          /\ remote'.pages = remote.pages + 1
          /\ remote'.next # <<>>
          /\ requests'[Len(requests')].query.cursor = remote'.next]_vars

\* The third page has been requested with the cursor of the second response.
C23_Witness ==
  /\ tool \in PagingTools
  /\ pc = "awaiting"
  /\ Len(requests) = 3
  /\ remote.pages = 2
  /\ remote.next = <<3>>
  /\ requests[2].query.cursor = <<2>>
  /\ requests[3].query.cursor = <<3>>

\* A list of meetings whose first rendering was over the limit.
ListTruncated ==
  /\ pc = "done"
  /\ tool = "list_meetings"
  /\ remote.failure = <<>>
  /\ result[1].text.first > 25000

\* C24: an oversized text of list_meetings over n meetings is rendered anew
\* from the first ceil(n/2) meetings: in markdown and in JSON it shows
\* those meetings, each as a whole, and no other, and its message states n
\* and ceil(n/2).
C24_HalvedListing ==
  ListTruncated =>
    LET n == Len(remote.served)
        half == (n + 1) \div 2
        text == result[1].text
    IN  /\ text.notice
        /\ text.rendered = SubSeq(remote.served, 1, half)
        /\ text.within = [partly |-> half, wholly |-> half]
        /\ text.stated = <<n, half>>

TranscriptReturned == pc = "done" /\ tool = "get_transcript" /\ remote.failure = <<>>

\* C25: an oversized text of get_transcript over n utterances is rendered
\* from the first ceil(n/2) utterances in the order received, in markdown
\* and in JSON, and its message states n and ceil(n/2); a text within the
\* limit is rendered from all utterances in the order received, and the
\* structured transcript is always the one received.
C25_HalvedTranscript ==
  TranscriptReturned =>
    LET n == Len(remote.served)
        half == (n + 1) \div 2
        text == result[1].text
    IN  /\ result[1].structured[1].transcript = remote.served
        /\ IF text.first > 25000
           THEN /\ text.notice
                /\ text.rendered = [i \in 1..half |-> remote.served[i]]
                /\ text.stated = <<n, half>>
                /\ ~text.sliced
           ELSE text.rendered = remote.served /\ ~text.notice

\* Three utterances, the long one first: the text shows the first two.
C25_Witness ==
  /\ TranscriptReturned
  /\ remote.served = <<3, 1, 2>>
  /\ result[1].text.first > 25000
  /\ result[1].text.rendered = <<3, 1>>
  /\ result[1].text.stated = <<3, 2>>

\* The character at 0-based position k of a string ("." is the filler).
CharAt(s, k) ==
  IF k < s.pre \/ k >= s.pre + Len(s.body) THEN "." ELSE s.body[k - s.pre + 1]

\* Whether the query stands at position i of the text, ignoring case.
MatchAt(s, query, i) ==
  \A k \in 1..Len(query) : LowerChar(CharAt(s, i + k - 1)) = LowerChar(query[k])

\* The position of the first occurrence of the query (it has one).
FirstMatch(s, query) ==
  CHOOSE i \in s.pre..(s.pre + Len(s.body)) :
    MatchAt(s, query, i) /\ \A h \in s.pre..(i - 1) : ~MatchAt(s, query, h)

\* What the context snippets of a meeting are taken from, in order: its
\* first three utterances that hold the query and, when these are fewer
\* than three, its summary if that holds the query.
SnippetSources(m, query) ==
  LET entries == IF m.transcript = <<>> THEN <<>> ELSE m.transcript[1]
      holding == SelectSeq(entries, LAMBDA e : ContainsIgnoringCase(Entry(e).text, query))
      first3 == SubSeq(holding, 1, IF Len(holding) < 3 THEN Len(holding) ELSE 3)
      fromTranscript == [x \in 1..Len(first3) |->
                           [source |-> "transcript", timestamp |-> Entry(first3[x]).timestamp,
                            speaker |-> Entry(first3[x]).speaker, text |-> Entry(first3[x]).text]]
  IN  IF FoundIn(m, query).in_summary /\ Len(first3) < 3
      THEN Append(fromTranscript,
                  [source |-> "summary", timestamp |-> "", speaker |-> "",
                   text |-> m.default_summary[1].markdown_formatted[1]])
      ELSE fromTranscript

\* C26: a snippet is the text from max(0, i-50) to min(L, i+q+50) around
\* the first occurrence i of the query, with "..." in front exactly when
\* i > 50 and "..." behind exactly when i+q+50 < L; a transcript snippet is
\* labelled with the timestamp and the speaker of its utterance, a summary
\* snippet with "[Summary]".
C26_SnippetWindow ==
  SearchReturned =>
    \A j \in 1..Len(result[1].structured[1].results) :
      LET r == result[1].structured[1].results[j]
          from == SnippetSources(MeetingOf(r.recording_id), params.query)
      IN  \A x \in 1..Len(r.context_snippets) :
            x <= Len(from) =>
              LET c == r.context_snippets[x]
                  text == from[x].text
                  L == StrLen(text)
                  q == Len(params.query)
                  i == FirstMatch(text, params.query)
                  lo == IF i - 50 > 0 THEN i - 50 ELSE 0
                  hi == IF i + q + 50 < L THEN i + q + 50 ELSE L
              IN  /\ StrLen(c.snippet.body) = hi - lo
                  /\ \A k \in 0..(hi - lo - 1) : CharAt(c.snippet.body, k) = CharAt(text, lo + k)
                  /\ MatchAt(c.snippet.body, params.query, i - lo)
                  /\ c.snippet.leftDots = (i > 50)
                  /\ c.snippet.rightDots = (i + q + 50 < L)
                  /\ c.source = from[x].source
                  /\ c.timestamp = from[x].timestamp
                  /\ c.speaker = from[x].speaker

\* The query stands 60 characters into an utterance of Dana at 00:12:34
\* and 70 characters before its end: the snippet is labelled with both and
\* has "..." on either side.
C26_Witness ==
  /\ SearchReturned
  /\ params.query = <<"a", "b">>
  /\ remote.served = <<1>>
  /\ LET cs == result[1].structured[1].results[1].context_snippets
     IN  /\ cs[1].source = "transcript"
         /\ cs[1].timestamp = "00:12:34"
         /\ cs[1].speaker = "Dana"
         /\ cs[1].snippet.leftDots
         /\ cs[1].snippet.rightDots
         /\ cs[1].snippet.body = Str(50, <<"a", "b">>, 50)

\* C27: the context snippets of a result are one per utterance holding the
\* query, in utterance order, up to three; the summary snippet follows
\* them only when they are fewer than three; in_summary says whether the
\* summary holds the query, also when its snippet was left out.
C27_SnippetOrder ==
  SearchReturned =>
    \A j \in 1..Len(result[1].structured[1].results) :
      LET r == result[1].structured[1].results[j]
          m == MeetingOf(r.recording_id)
          from == SnippetSources(m, params.query)
      IN  /\ Len(r.context_snippets) = Len(from)
          /\ \A x \in 1..Len(from) :
               /\ r.context_snippets[x].source = from[x].source
               /\ r.context_snippets[x].timestamp = from[x].timestamp
               /\ r.context_snippets[x].speaker = from[x].speaker
          /\ r.in_summary = FoundIn(m, params.query).in_summary

\* One utterance and the summary hold the query: the snippet of the
\* utterance, then that of the summary, which holds the query exactly 50
\* characters from its start and 50 from its end and gets no "...".
C27_Witness ==
  /\ SearchReturned
  /\ params.query = <<"B", "C">>
  /\ remote.served = <<1>>
  /\ LET r == result[1].structured[1].results[1]
     IN  /\ Len(r.context_snippets) = 2
         /\ r.context_snippets[1].source = "transcript"
         /\ r.context_snippets[1].timestamp = "00:15:00"
         /\ r.context_snippets[2].source = "summary"
         /\ ~r.context_snippets[2].snippet.leftDots
         /\ ~r.context_snippets[2].snippet.rightDots
         /\ r.in_summary

\* C28: a call of apiGet, apiPost or apiDelete made while the client is
\* not initialized issues no request and the calling handler returns the
\* error result that names the missing configuration; a call made with a
\* client issues one request, and every request carries the X-Api-Key
\* header with the key the client was initialized with.
C28_NoClientNoRequest ==
  /\ [][(pc = "idle" /\ pc' # "idle") =>
          IF apiClient = <<>>
          THEN /\ pc' = "done"
               /\ requests' = <<>>
               /\ Len(result') = 1
               /\ result'[1].isError
               /\ result'[1].structured = <<>>
               /\ result'[1].text.message.detail =
                    "API client not initialized. Please set FATHOM_API_KEY environment variable."
          ELSE /\ pc' = "awaiting"
               /\ Len(requests') = 1
               /\ requests'[1].headers.XApiKey = apiClient[1].headers.XApiKey]_vars
  /\ [](\A i \in 1..Len(requests) : requests[i].headers.XApiKey \in {"key-1", "key-2"})

\* apiPost was called before any initializeApiClient: no request, an error
\* result.
C28_Witness ==
  /\ pc = "done"
  /\ apiClient = <<>>
  /\ params.fn = "apiPost"
  /\ requests = <<>>
  /\ result # <<>>
  /\ result[1].isError
  /\ result[1].text.message.kind = "Unexpected"

\* C29: without FATHOM_API_KEY (unset or empty) the process writes the
\* diagnostic and exits with status 1 with the client uninitialized, no
\* tool registered and no transport connected.  With a key, tools are
\* registered only once the client is initialized, the transport connects
\* only once all ten tools are registered, invocations run only once it
\* is connected, and the client is set once, by main(), and never changed
\* afterwards.
C29_StartupOrder ==
  /\ [](main.env \in { <<>>, <<"">> } =>
          /\ apiClient = <<>>
          /\ main.tools = {}
          /\ main.pc \in {"start", "exited"}
          /\ pc = "idle"
          /\ main.pc = "exited" =>
               /\ main.exit = <<1>>
               /\ main.stderr # <<>>
               /\ main.stderr[1] = "ERROR: FATHOM_API_KEY environment variable is required")
  /\ [](main.env \notin { <<>>, <<"">> } =>
          /\ main.pc # "start" => (apiClient # <<>> /\ apiClient[1].headers.XApiKey = main.env[1])
          /\ main.tools # {} => apiClient # <<>>
          /\ main.pc = "connected" => main.tools = Tools
          /\ pc # "idle" => main.pc = "connected"
          /\ main.pc = "start" => (apiClient = <<>> /\ main.tools = {}))
  /\ [][/\ apiClient # <<>> => apiClient' = apiClient
        /\ apiClient' # apiClient => (main.pc = "start" /\ main'.pc = "initialized")
        /\ main'.tools # main.tools => (main.pc = "initialized" /\ apiClient # <<>>)
        /\ (main'.pc = "connected" /\ main.pc # "connected") =>
             (main.pc = "registered" /\ main.tools = Tools)]_vars

\* The server is connected with all tools registered and an invocation has
\* run with the client main() initialized.
C29_Witness ==
  /\ main.pc = "connected"
  /\ main.tools = Tools
  /\ apiClient = << AxiosCreate("key-1") >>
  /\ pc = "done"
  /\ tool = "delete_webhook"
  /\ requests[1].headers.XApiKey = "key-1"

\* The locals of the first invocation, as a record like `second`.
First ==
  [pc |-> pc, tool |-> tool, params |-> params, allMeetings |-> allMeetings,
   cursor |-> cursor, pageCount |-> pageCount, requests |-> requests, remote |-> remote,
   result |-> result]

\* An invocation is where it would be running alone on the responses the
\* remote gave to it: it has collected the items of its own pages in
\* order, counted its own pages, holds the cursor of its own last page,
\* has asked for each page with the cursor of its own previous page, and,
\* once done, returns what the handler computes from its own collection
\* (or the error result of its own failure).
AsAlone(inv) ==
  inv.pc # "idle" =>
    /\ inv.allMeetings = inv.remote.served
    /\ inv.pageCount = inv.remote.pages
    /\ inv.cursor = inv.remote.next
    /\ \A k \in 1..Len(inv.requests) :
         inv.requests[k].query.cursor = (IF k = 1 THEN <<>> ELSE <<k>>)
    /\ inv.pc = "done" =>
         inv.result = IF inv.remote.failure # <<>>
                      THEN << ErrorResult(inv.remote.failure[1]) >>
                      ELSE << HandlerResult(inv.tool, inv.params, inv.remote.served) >>

\* C30: of two interleaved paginating invocations each is where it would
\* be running alone on its own responses, and an invocation that has not
\* started holds nothing of an earlier or of the other one.
C30_NoInterference ==
  /\ AsAlone(First)
  /\ AsAlone(second)
  /\ second.pc = "idle" => second = NoInvocation
  /\ pc = "idle" => First = NoInvocation

\* Both invocations are done after two pages each, received alternately
\* with different items, and return different results.
C30_Witness ==
  /\ pc = "done"
  /\ second.pc = "done"
  /\ tool = "participant_stats"
  /\ second.tool = "participant_stats"
  /\ remote.served = <<1, 2>>
  /\ second.remote.served = <<2, 2>>
  /\ remote.pages = 2
  /\ second.remote.pages = 2
  /\ result # second.result
  /\ result = << HandlerResult(tool, params, <<1, 2>>) >>
  /\ second.result = << HandlerResult(second.tool, second.params, <<2, 2>>) >>

====
